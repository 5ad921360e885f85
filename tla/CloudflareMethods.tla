--------------------------- MODULE CloudflareMethods --------------------------
(***************************************************************************)
(* The methods that the Cloudflare connector declares                      *)
(* (packages/connectors/src/connectors/cloudflare/methods-*.ts).  Its      *)
(* execute function takes the function of the SDK that has the name of the *)
(* method.                                                                 *)
(***************************************************************************)
EXTENDS ConnectorMethods

-------------------------------------------------------------------------------
(* dnsMethods                                                              *)
Zones ==
    UNION {Ops(<<"zones">>, {"list", "get"}, {"create", "edit"}, {"delete"}),
           Ops(<<"dns", "records">>, {"list", "export", "get"},
               {"create", "update", "batch", "edit", "import", "scan"}, {"delete"})}

DnsSettings ==
    UNION {Ops(<<"dns", "dnssec">>, {"get"}, {"edit"}, {"delete"}),
           Ops(<<"dnsFirewall">>, {"list", "get"}, {"create", "edit"}, {"delete"})}

-------------------------------------------------------------------------------
(* workersMethods                                                          *)
WorkerScripts ==
    UNION {Ops(<<"workers", "scripts">>, {"list", "get", "search"}, {"update"}, {"delete"}),
           Ops(<<"workers", "scripts", "settings">>, {"get"}, {"edit"}, {}),
           Ops(<<"workers", "scripts", "secrets">>, {"list", "get"}, {"update"}, {"delete"}),
           Ops(<<"workers", "scripts", "deployments">>, {"list", "get"}, {"create"}, {"delete"}),
           Ops(<<"workers", "scripts", "versions">>, {"list", "get"}, {"create"}, {}),
           Ops(<<"workers", "scripts", "schedules">>, {"get"}, {"update"}, {})}

WorkerRoutes ==
    UNION {Ops(<<"workers", "scripts", "tail">>, {"get"}, {"create"}, {"delete"}),
           Ops(<<"workers", "scripts", "subdomain">>, {"get"}, {"create"}, {"delete"}),
           Ops(<<"workers", "routes">>, {"list", "get"}, {"create", "update"}, {"delete"}),
           Ops(<<"workers", "domains">>, {"list", "get"}, {"update"}, {"delete"}),
           Ops(<<"workers", "accountSettings">>, {"get"}, {"update"}, {}),
           Ops(<<"workers", "subdomains">>, {"get"}, {"update"}, {})}

KeyValueStores ==
    UNION {Ops(<<"kv", "namespaces">>, {"list", "get"}, {"create", "update", "bulkUpdate"},
               {"delete", "bulkDelete"}),
           Ops(<<"kv", "namespaces", "keys">>, {"list"}, {}, {}),
           Ops(<<"kv", "namespaces", "values">>, {"get"}, {"update"}, {"delete"}),
           Ops(<<"kv", "namespaces", "metadata">>, {"get"}, {}, {})}

DatabasesAndQueues ==
    UNION {Ops(<<"d1", "database">>, {"list", "get", "export"},
               {"create", "update", "edit", "query", "raw", "import"}, {"delete"}),
           Ops(<<"queues">>, {"list", "get"}, {"create", "update", "edit"}, {"delete"}),
           Ops(<<"queues", "messages">>, {}, {"ack", "bulkPush", "pull", "push"}, {})}

ConsumersAndWorkflows ==
    UNION {Ops(<<"queues", "consumers">>, {"list", "get"}, {"create", "update"}, {"delete"}),
           Ops(<<"durableObjects", "namespaces">>, {"list"}, {}, {}),
           Ops(<<"workflows">>, {"list", "get"}, {"update"}, {"delete"}),
           Ops(<<"workflows", "instances">>, {"list", "get"}, {"create"}, {}),
           Ops(<<"workflows", "versions">>, {"list", "get"}, {}, {})}

ConfigsAndPipelines ==
    UNION {Ops(<<"hyperdrive", "configs">>, {"list", "get"}, {"create", "update", "edit"},
               {"delete"}),
           Ops(<<"pipelines">>, {"list", "get"}, {"create", "update"}, {"delete"})}

-------------------------------------------------------------------------------
(* storageMethods                                                          *)
Buckets ==
    UNION {Ops(<<"r2", "buckets">>, {"list", "get"}, {"create", "edit"}, {"delete"}),
           Ops(<<"r2", "buckets", "lifecycle">>, {"get"}, {"update"}, {}),
           Ops(<<"r2", "buckets", "cors">>, {"get"}, {"update"}, {"delete"}),
           Ops(<<"r2", "buckets", "domains", "custom">>, {"list", "get"}, {"create", "update"},
               {"delete"}),
           Ops(<<"r2", "buckets", "eventNotifications">>, {"list", "get"}, {"update"},
               {"delete"})}

BucketLocksAndStreams ==
    UNION {Ops(<<"r2", "buckets", "locks">>, {"get"}, {"update"}, {}),
           Ops(<<"r2", "buckets", "sippy">>, {"get"}, {"update"}, {"delete"}),
           Ops(<<"r2", "temporaryCredentials">>, {}, {"create"}, {}),
           Ops(<<"stream">>, {"list", "get"}, {"create", "edit"}, {"delete"}),
           Ops(<<"stream", "directUpload">>, {}, {"create"}, {}),
           Ops(<<"stream", "liveInputs">>, {"list", "get"}, {"create", "update"}, {"delete"})}

StreamParts ==
    UNION {Ops(<<"stream", "keys">>, {"get"}, {"create"}, {"delete"}),
           Ops(<<"stream", "watermarks">>, {"list", "get"}, {"create"}, {"delete"}),
           Ops(<<"stream", "webhooks">>, {"get"}, {"update"}, {"delete"}),
           Ops(<<"stream", "captions">>, {"get"}, {}, {}),
           Ops(<<"stream", "downloads">>, {"get"}, {"create"}, {"delete"}),
           Ops(<<"stream", "clip">>, {}, {"create"}, {}),
           Ops(<<"stream", "token">>, {}, {"create"}, {})}

Images ==
    UNION {Ops(<<"images", "v1">>, {"list", "get"}, {"create", "edit"}, {"delete"}),
           Ops(<<"images", "v2">>, {"list"}, {}, {})}

-------------------------------------------------------------------------------
(* pagesMethods                                                            *)
Pages ==
    UNION {Ops(<<"pages", "projects">>, {"list", "get"}, {"create", "edit", "purgeBuildCache"},
               {"delete"}),
           Ops(<<"pages", "projects", "deployments">>, {"list", "get"},
               {"create", "retry", "rollback"}, {"delete"}),
           Ops(<<"pages", "projects", "domains">>, {"list", "get"}, {"create", "edit"},
               {"delete"})}

HostnamesAndRooms ==
    UNION {Ops(<<"customHostnames">>, {"list", "get"}, {"create", "edit"}, {"delete"}),
           Ops(<<"customHostnames", "fallbackOrigin">>, {"get"}, {"update"}, {}),
           Ops(<<"waitingRooms">>, {"list", "get"}, {"create", "update", "edit"}, {"delete"}),
           Ops(<<"waitingRooms", "events">>, {"list", "get"}, {"create", "update", "edit"},
               {"delete"})}

RoomRulesAndSnippets ==
    UNION {Ops(<<"waitingRooms", "rules">>, {}, {"create", "update", "edit"}, {"delete"}),
           Ops(<<"waitingRooms", "statuses">>, {"get"}, {}, {}),
           Ops(<<"waitingRooms", "settings">>, {"get"}, {"update", "edit"}, {}),
           Ops(<<"snippets">>, {"list", "get"}, {"update"}, {"delete"}),
           Ops(<<"snippets", "rules">>, {"list"}, {"update"}, {"delete"}),
           Ops(<<"web3", "hostnames">>, {"list", "get"}, {"create", "edit"}, {"delete"})}

-------------------------------------------------------------------------------
(* securityMethods                                                         *)
Rulesets ==
    UNION {Ops(<<"rulesets">>, {"list", "get"}, {"create", "update"}, {"delete"}),
           Ops(<<"rulesets", "phases">>, {"get"}, {"update"}, {}),
           Ops(<<"rulesets", "rules">>, {}, {"create", "edit"}, {"delete"}),
           Ops(<<"rulesets", "versions">>, {"list", "get"}, {}, {"delete"}),
           Ops(<<"firewall", "rules">>, {"list", "get"}, {"create", "update", "edit"},
               {"delete"})}

Firewalls ==
    UNION {Ops(<<"firewall", "lockdowns">>, {"list", "get"}, {"create", "update"}, {"delete"}),
           Ops(<<"firewall", "accessRules">>, {"list", "get"}, {"create", "edit"}, {"delete"}),
           Ops(<<"firewall", "uaRules">>, {"list", "get"}, {"create", "update"}, {"delete"}),
           Ops(<<"ssl", "certificatePacks">>, {"list", "get"}, {"create", "edit"}, {"delete"})}

Certificates ==
    UNION {Ops(<<"ssl", "analyze">>, {}, {"create"}, {}),
           Ops(<<"ssl", "verification">>, {"get"}, {"edit"}, {}),
           Ops(<<"ssl", "recommendations">>, {"get"}, {}, {}),
           Ops(<<"customCertificates">>, {"list", "get"}, {"create", "edit"}, {"delete"}),
           Ops(<<"originCACertificates">>, {"list", "get"}, {"create"}, {"delete"}),
           Ops(<<"keylessCertificates">>, {"list", "get"}, {"create", "edit"}, {"delete"})}

ClientsAndShields ==
    UNION {Ops(<<"clientCertificates">>, {"list", "get"}, {"create", "edit"}, {"delete"}),
           Ops(<<"turnstile", "widgets">>, {"list", "get"},
               {"create", "update", "rotateSecret"}, {"delete"}),
           Ops(<<"botManagement">>, {"get"}, {"update"}, {}),
           Ops(<<"pageShield">>, {"get"}, {"update"}, {}),
           Ops(<<"pageShield", "scripts">>, {"list", "get"}, {}, {}),
           Ops(<<"pageShield", "connections">>, {"list", "get"}, {}, {})}

PageRules ==
    UNION {Ops(<<"pageRules">>, {"list", "get"}, {"create", "update", "edit"}, {"delete"}),
           Ops(<<"rateLimits">>, {"list", "get"}, {"create", "edit"}, {"delete"}),
           Ops(<<"managedTransforms">>, {"list"}, {"edit"}, {"delete"}),
           Ops(<<"urlNormalization">>, {"get"}, {"update"}, {}),
           Ops(<<"securityTXT">>, {"get"}, {"update"}, {"delete"})}

-------------------------------------------------------------------------------
(* zeroTrustMethods                                                        *)
AccessApplications ==
    UNION {Ops(<<"zeroTrust", "access", "applications">>, {"list", "get"},
               {"create", "update", "revokeTokens"}, {"delete"}),
           Ops(<<"zeroTrust", "access", "groups">>, {"list", "get"}, {"create", "update"},
               {"delete"}),
           Ops(<<"zeroTrust", "access", "policies">>, {"list", "get"}, {"create", "update"},
               {"delete"})}

AccessTokens ==
    UNION {Ops(<<"zeroTrust", "access", "serviceTokens">>, {"list", "get"},
               {"create", "update", "refresh", "rotate"}, {"delete"}),
           Ops(<<"zeroTrust", "access", "certificates">>, {"list", "get"}, {"create", "update"},
               {"delete"}),
           Ops(<<"zeroTrust", "access", "customPages">>, {"list", "get"}, {"create", "update"},
               {"delete"})}

AccessUsers ==
    UNION {Ops(<<"zeroTrust", "access", "tags">>, {"list", "get"}, {"create", "update"},
               {"delete"}),
           Ops(<<"zeroTrust", "access", "keys">>, {"get"}, {"update", "rotate"}, {}),
           Ops(<<"zeroTrust", "access", "users">>, {"list"}, {}, {}),
           Ops(<<"zeroTrust", "access", "gatewayCA">>, {"list"}, {"create"}, {"delete"}),
           Ops(<<"zeroTrust", "identityProviders">>, {"list", "get"}, {"create", "update"},
               {"delete"})}

Organizations ==
    UNION {Ops(<<"zeroTrust", "organizations">>, {"list"}, {"create", "update", "revokeUsers"},
               {}),
           Ops(<<"zeroTrust", "tunnels">>, {"list"}, {}, {}),
           Ops(<<"zeroTrust", "devices">>, {"list", "get"}, {}, {}),
           Ops(<<"zeroTrust", "connectivitySettings">>, {"get"}, {"edit"}, {}),
           Ops(<<"zeroTrust", "seats">>, {}, {"edit"}, {}),
           Ops(<<"zeroTrust", "riskScoring">>, {"get"}, {"reset"}, {})}

-------------------------------------------------------------------------------
(* networkingMethods                                                       *)
LoadBalancers ==
    UNION {Ops(<<"loadBalancers">>, {"list", "get"}, {"create", "update", "edit"}, {"delete"}),
           Ops(<<"loadBalancers", "pools">>, {"list", "get"}, {"create", "update", "edit"},
               {"delete"}),
           Ops(<<"loadBalancers", "monitors">>, {"list", "get"}, {"create", "update", "edit"},
               {"delete"}),
           Ops(<<"loadBalancers", "regions">>, {"list", "get"}, {}, {})}

Tunnels ==
    UNION {Ops(<<"loadBalancers", "searches">>, {"list"}, {}, {}),
           Ops(<<"loadBalancers", "previews">>, {"get"}, {}, {}),
           Ops(<<"spectrum", "apps">>, {"list", "get"}, {"create", "update"}, {"delete"}),
           Ops(<<"magicTransit", "greTunnels">>, {"list", "get"}, {"create", "update"},
               {"delete"}),
           Ops(<<"magicTransit", "ipsecTunnels">>, {"list", "get"},
               {"create", "update", "pskGenerate"}, {"delete"})}

Transit ==
    UNION {Ops(<<"magicTransit", "routes">>, {"list", "get"}, {"create", "update"}, {"delete"}),
           Ops(<<"magicTransit", "sites">>, {"list", "get"}, {"create", "update", "edit"},
               {"delete"}),
           Ops(<<"magicTransit", "connectors">>, {"list", "get"}, {"create", "update", "edit"},
               {"delete"}),
           Ops(<<"magicTransit", "cfInterconnects">>, {"list", "get"}, {"update"}, {})}

RoutingAndAddresses ==
    UNION {Ops(<<"argo", "smartRouting">>, {"get"}, {"edit"}, {}),
           Ops(<<"argo", "tieredCaching">>, {"get"}, {"edit"}, {}),
           Ops(<<"ips">>, {"list"}, {}, {}),
           Ops(<<"customNameservers">>, {"get"}, {"create"}, {"delete"})}

-------------------------------------------------------------------------------
(* aiMethods                                                               *)
Models ==
    UNION {Ops(<<"ai">>, {}, {"run"}, {}),
           Ops(<<"ai", "models">>, {"list"}, {}, {}),
           Ops(<<"ai", "finetunes">>, {"list"}, {"create"}, {}),
           Ops(<<"ai", "authors">>, {"list"}, {}, {}),
           Ops(<<"ai", "tasks">>, {"list"}, {}, {}),
           Ops(<<"aiGateway">>, {"list", "get"}, {"create", "update"}, {"delete"}),
           Ops(<<"aiGateway", "logs">>, {"list", "get", "request", "response"}, {"edit"},
               {"delete"})}

GatewaysAndIndexes ==
    UNION {Ops(<<"aiGateway", "datasets">>, {"list", "get"}, {"create", "update"}, {"delete"}),
           Ops(<<"aiGateway", "evaluations">>, {"list", "get"}, {"create"}, {"delete"}),
           Ops(<<"vectorize", "indexes">>, {"list", "get", "info", "getByIds"},
               {"create", "insert", "upsert", "query"}, {"delete", "deleteByIds"}),
           Ops(<<"browserRendering", "content">>, {}, {"create"}, {})}

Rendering ==
    UNION {Ops(<<"browserRendering", "json">>, {}, {"create"}, {}),
           Ops(<<"browserRendering", "links">>, {}, {"create"}, {}),
           Ops(<<"browserRendering", "markdown">>, {}, {"create"}, {}),
           Ops(<<"browserRendering", "pdf">>, {}, {"create"}, {}),
           Ops(<<"browserRendering", "screenshot">>, {}, {"create"}, {})}

-------------------------------------------------------------------------------
(* platformMethods                                                         *)
AccountsAndMembers ==
    UNION {Ops(<<"accounts">>, {"list", "get"}, {"create", "update"}, {"delete"}),
           Ops(<<"accounts", "members">>, {"list", "get"}, {"create", "update"}, {"delete"}),
           Ops(<<"accounts", "roles">>, {"list", "get"}, {}, {}),
           Ops(<<"accounts", "subscriptions">>, {"get"}, {"create", "update"}, {"delete"})}

TokensAndUsers ==
    UNION {Ops(<<"accounts", "tokens">>, {"list", "get", "verify"}, {"create", "update"},
               {"delete"}),
           Ops(<<"user">>, {"get"}, {"edit"}, {}),
           Ops(<<"user", "tokens">>, {"list", "get", "verify"}, {"create", "update"},
               {"delete"}),
           Ops(<<"user", "invites">>, {"list"}, {"edit"}, {}),
           Ops(<<"user", "organizations">>, {"list", "get"}, {}, {"delete"})}

MembershipsAndMail ==
    UNION {Ops(<<"memberships">>, {"list", "get"}, {"update"}, {"delete"}),
           Ops(<<"auditLogs">>, {"list"}, {}, {}),
           Ops(<<"registrar", "domains">>, {"list", "get"}, {"update"}, {}),
           Ops(<<"emailRouting">>, {"get"}, {"disable", "enable"}, {}),
           Ops(<<"emailRouting", "rules">>, {"list", "get"}, {"create", "update"}, {"delete"}),
           Ops(<<"emailRouting", "addresses">>, {"list", "get"}, {"create"}, {"delete"})}

LogsAndAlerts ==
    UNION {Ops(<<"emailRouting", "dns">>, {"get"}, {"create", "edit"}, {"delete"}),
           Ops(<<"logpush", "jobs">>, {"list", "get"}, {"create", "update"}, {"delete"}),
           Ops(<<"logpush", "ownership">>, {}, {"create", "validate"}, {}),
           Ops(<<"alerting", "policies">>, {"list", "get"}, {"create", "update"}, {"delete"}),
           Ops(<<"alerting", "destinations", "webhooks">>, {"list"}, {"create", "update"},
               {"delete"})}

CachesAndHealth ==
    UNION {Ops(<<"alerting", "history">>, {"list"}, {}, {}),
           Ops(<<"cache", "variants">>, {"get"}, {"edit"}, {"delete"}),
           Ops(<<"cache", "smartTieredCache">>, {"get"}, {"edit"}, {"delete"}),
           Ops(<<"cache", "regionalTieredCache">>, {"get"}, {"edit"}, {}),
           Ops(<<"cache", "cacheReserve">>, {"get"}, {"edit"}, {}),
           Ops(<<"healthchecks">>, {"list", "get"}, {"create", "update", "edit"}, {"delete"}),
           Ops(<<"healthchecks", "previews">>, {"get"}, {"create"}, {"delete"})}

CustomPages ==
    UNION {Ops(<<"customPages">>, {"list", "get"}, {"update"}, {}),
           Ops(<<"secretsStore", "stores">>, {"list"}, {"create"}, {"delete"}),
           Ops(<<"originPostQuantumEncryption">>, {"get"}, {"update"}, {})}

-------------------------------------------------------------------------------
AllCloudflareMethods ==
    Zones \cup DnsSettings \cup WorkerScripts \cup WorkerRoutes \cup KeyValueStores
      \cup DatabasesAndQueues \cup ConsumersAndWorkflows \cup ConfigsAndPipelines
      \cup Buckets \cup BucketLocksAndStreams \cup StreamParts \cup Images \cup Pages
      \cup HostnamesAndRooms \cup RoomRulesAndSnippets \cup Rulesets \cup Firewalls
      \cup Certificates \cup ClientsAndShields \cup PageRules \cup AccessApplications
      \cup AccessTokens \cup AccessUsers \cup Organizations \cup LoadBalancers \cup Tunnels
      \cup Transit \cup RoutingAndAddresses \cup Models \cup GatewaysAndIndexes
      \cup Rendering \cup AccountsAndMembers \cup TokensAndUsers \cup MembershipsAndMail
      \cup LogsAndAlerts \cup CachesAndHealth \cup CustomPages

ASSUME CloudflareNamesAssumption == UniqueNames(AllCloudflareMethods)
===============================================================================
