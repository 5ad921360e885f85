---------------------------- MODULE RestConnectors ----------------------------
(***************************************************************************)
(* The connectors that call a REST interface with fetch(): Gmail, Trello,  *)
(* Airtable, AgentMail and Hetzner (packages/connectors/src/connectors).   *)
(* For each the methods it declares and the requests its execute function  *)
(* sends for them.                                                         *)
(***************************************************************************)
EXTENDS ConnectorMethods

-------------------------------------------------------------------------------
(* Gmail                                                                   *)
MessageMethods ==
    Ops(<<"messages">>, {"list", "get"}, {"send", "modify", "untrash", "batchModify"},
        {"trash", "delete"})

MessageAndDraftMethods ==
    UNION {Ops(<<"messages">>, {}, {}, {"batchDelete"}),
           Ops(<<"attachments">>, {"get"}, {}, {}),
           Ops(<<"drafts">>, {"list", "get"}, {"create", "send", "update"}, {"delete"})}

LabelMethods ==
    Ops(<<"labels">>, {"list", "get"}, {"create", "patch"}, {"delete"})

ThreadMethods ==
    UNION {Ops(<<"threads">>, {"list", "get"}, {"modify", "untrash"}, {"trash", "delete"}),
           Ops(<<"profile">>, {"get"}, {}, {})}

GmailMethods ==
    MessageMethods \cup MessageAndDraftMethods \cup LabelMethods \cup ThreadMethods

MailRequests ==
    UNION {Requests("GET", <<"messages">>, {"list", "get"}),
           Requests("POST", <<"messages">>,
               {"send", "trash", "modify", "untrash", "batchModify", "batchDelete"}),
           Requests("DELETE", <<"messages">>, {"delete"}),
           Requests("GET", <<"attachments">>, {"get"}),
           Requests("POST", <<"drafts">>, {"create", "send"}),
           Requests("GET", <<"drafts">>, {"list", "get"})}

LabelAndThreadRequests ==
    UNION {Requests("PUT", <<"drafts">>, {"update"}),
           Requests("DELETE", <<"drafts">>, {"delete"}),
           Requests("GET", <<"labels">>, {"list", "get"}),
           Requests("POST", <<"labels">>, {"create"}),
           Requests("PATCH", <<"labels">>, {"patch"}),
           Requests("DELETE", <<"labels">>, {"delete"}),
           Requests("GET", <<"threads">>, {"list", "get"}),
           Requests("POST", <<"threads">>, {"modify", "trash", "untrash"}),
           Requests("DELETE", <<"threads">>, {"delete"}),
           Requests("GET", <<"profile">>, {"get"})}

GmailRequests ==
    MailRequests \cup LabelAndThreadRequests

-------------------------------------------------------------------------------
(* Trello                                                                  *)
BoardMethods ==
    UNION {Ops(<<"members">>, {"me"}, {}, {}),
           Ops(<<>>, {"search"}, {}, {}),
           Ops(<<"boards">>, {"list", "get", "members"}, {"create", "update"}, {"delete"})}

ListMethods ==
    Ops(<<"lists">>, {"get"}, {"create", "update", "archive", "unarchive"}, {})

\* Taking a member off a card declared as a write, though a DELETE is sent.
RemoveMemberWrites ==
    Ops(<<"cards">>, {"list", "listByList", "get"},
        {"create", "update", "addMember", "removeMember"}, {"delete"})

CardMethods ==
    Ops(<<"cards">>, {"list", "listByList", "get"}, {"create", "update", "addMember"},
        {"delete", "removeMember"})

CardContentMethods ==
    UNION {Ops(<<"cards">>, {}, {"addLabel"}, {"removeLabel"}),
           Ops(<<"comments">>, {"list"}, {"create", "update"}, {"delete"}),
           Ops(<<"labels">>, {"list"}, {"create", "update"}, {"delete"})}

ChecklistMethods ==
    UNION {Ops(<<"checklists">>, {"get"}, {"create"}, {"delete"}),
           Ops(<<"checkItems">>, {}, {"create", "update"}, {"delete"}),
           Ops(<<"attachments">>, {"list"}, {"create"}, {"delete"})}

HookMethods ==
    Ops(<<"webhooks">>, {"get"}, {"create"}, {"delete"})

TrelloMethods ==
    BoardMethods \cup ListMethods \cup CardMethods \cup CardContentMethods
      \cup ChecklistMethods \cup HookMethods

BoardRequests ==
    UNION {Requests("GET", <<"members">>, {"me"}),
           Requests("GET", <<>>, {"search"}),
           Requests("GET", <<"boards">>, {"list", "get", "members"}),
           Requests("POST", <<"boards">>, {"create"}),
           Requests("PUT", <<"boards">>, {"update"}),
           Requests("DELETE", <<"boards">>, {"delete"}),
           Requests("GET", <<"lists">>, {"get"}),
           Requests("POST", <<"lists">>, {"create"}),
           Requests("PUT", <<"lists">>, {"update", "archive", "unarchive"}),
           Requests("GET", <<"cards">>, {"list", "listByList", "get"}),
           Requests("POST", <<"cards">>, {"create"})}

CardRequests ==
    UNION {Requests("PUT", <<"cards">>, {"update"}),
           Requests("DELETE", <<"cards">>, {"delete", "removeMember", "removeLabel"}),
           Requests("POST", <<"cards">>, {"addMember", "addLabel"}),
           Requests("GET", <<"comments">>, {"list"}),
           Requests("POST", <<"comments">>, {"create"}),
           Requests("PUT", <<"comments">>, {"update"}),
           Requests("DELETE", <<"comments">>, {"delete"}),
           Requests("GET", <<"labels">>, {"list"}),
           Requests("POST", <<"labels">>, {"create"}),
           Requests("PUT", <<"labels">>, {"update"}),
           Requests("DELETE", <<"labels">>, {"delete"}),
           Requests("GET", <<"checklists">>, {"get"}),
           Requests("POST", <<"checklists">>, {"create"}),
           Requests("DELETE", <<"checklists">>, {"delete"}),
           Requests("POST", <<"checkItems">>, {"create"}),
           Requests("PUT", <<"checkItems">>, {"update"}),
           Requests("DELETE", <<"checkItems">>, {"delete"}),
           Requests("GET", <<"attachments">>, {"list"}),
           Requests("POST", <<"attachments">>, {"create"}),
           Requests("DELETE", <<"attachments">>, {"delete"}),
           Requests("POST", <<"webhooks">>, {"create"}),
           Requests("GET", <<"webhooks">>, {"get"}),
           Requests("DELETE", <<"webhooks">>, {"delete"})}

TrelloRequests ==
    BoardRequests \cup CardRequests

-------------------------------------------------------------------------------
(* Airtable                                                                *)
BaseMethods ==
    UNION {Ops(<<"bases">>, {"list"}, {}, {}),
           Ops(<<"base">>, {"tables"}, {}, {})}

RecordMethods ==
    Ops(<<"records">>, {"list", "get"}, {"create", "update", "upsert"}, {"delete"})

SchemaMethods ==
    UNION {Ops(<<"comments">>, {"list"}, {"create", "update"}, {"delete"}),
           Ops(<<"table">>, {}, {"create", "update"}, {}),
           Ops(<<"field">>, {}, {"create", "update"}, {})}

AirtableHookMethods ==
    UNION {Ops(<<"webhooks">>, {"list"}, {}, {}),
           Ops(<<"webhook">>, {"payloads"}, {"create", "refresh"}, {"delete"}),
           Ops(<<>>, {"whoami"}, {}, {})}

AirtableMethods ==
    BaseMethods \cup RecordMethods \cup SchemaMethods \cup AirtableHookMethods

BaseRequests ==
    UNION {Requests("GET", <<"bases">>, {"list"}),
           Requests("GET", <<"base">>, {"tables"}),
           Requests("GET", <<"records">>, {"list", "get"}),
           Requests("POST", <<"records">>, {"create"}),
           Requests("PATCH", <<"records">>, {"update", "upsert"}),
           Requests("DELETE", <<"records">>, {"delete"}),
           Requests("GET", <<"comments">>, {"list"}),
           Requests("POST", <<"comments">>, {"create"})}

RecordRequests ==
    UNION {Requests("PATCH", <<"comments">>, {"update"}),
           Requests("DELETE", <<"comments">>, {"delete"}),
           Requests("POST", <<"table">>, {"create"}),
           Requests("PATCH", <<"table">>, {"update"}),
           Requests("POST", <<"field">>, {"create"}),
           Requests("PATCH", <<"field">>, {"update"}),
           Requests("GET", <<"webhooks">>, {"list"}),
           Requests("POST", <<"webhook">>, {"create", "refresh"}),
           Requests("DELETE", <<"webhook">>, {"delete"}),
           Requests("GET", <<"webhook">>, {"payloads"}),
           Requests("GET", <<>>, {"whoami"})}

AirtableRequests ==
    BaseRequests \cup RecordRequests

-------------------------------------------------------------------------------
(* AgentMail                                                               *)
InboxMessageMethods ==
    Ops(<<"messages">>, {"list", "get", "getRaw", "getAttachment"},
        {"update", "send", "reply", "replyAll", "forward"}, {})

ThreadAndInboxMethods ==
    UNION {Ops(<<"threads">>, {"list", "get", "getAttachment"}, {}, {"delete"}),
           Ops(<<"inboxes">>, {"list", "get"}, {"create", "update"}, {"delete"})}

MailDraftMethods ==
    Ops(<<"drafts">>, {"list", "get", "getAttachment"}, {"create", "update", "send"},
        {"delete"})

DomainMethods ==
    UNION {Ops(<<"domains">>, {"list", "get", "getZoneFile"}, {"create", "update", "verify"},
               {"delete"}),
           Ops(<<"pods">>, {"list", "get"}, {"create"}, {"delete"})}

ListAndKeyMethods ==
    UNION {Ops(<<"webhooks">>, {"list", "get"}, {"create", "update"}, {"delete"}),
           Ops(<<"lists">>, {"list", "get"}, {"create"}, {"delete"}),
           Ops(<<"apiKeys">>, {"list"}, {"create"}, {"delete"})}

MetricsMethods ==
    UNION {Ops(<<"metrics">>, {"getOrg", "getInbox"}, {}, {}),
           Ops(<<"organization">>, {"get"}, {}, {})}

AgentMailMethods ==
    InboxMessageMethods \cup ThreadAndInboxMethods \cup MailDraftMethods \cup DomainMethods
      \cup ListAndKeyMethods \cup MetricsMethods

InboxRequests ==
    UNION {Requests("GET", <<"inboxes">>, {"list", "get"}),
           Requests("POST", <<"inboxes">>, {"create"}),
           Requests("PATCH", <<"inboxes">>, {"update"}),
           Requests("DELETE", <<"inboxes">>, {"delete"}),
           Requests("GET", <<"messages">>, {"list", "get", "getRaw", "getAttachment"}),
           Requests("PATCH", <<"messages">>, {"update"}),
           Requests("POST", <<"messages">>, {"send", "reply", "replyAll", "forward"}),
           Requests("GET", <<"threads">>, {"list", "get", "getAttachment"}),
           Requests("DELETE", <<"threads">>, {"delete"}),
           Requests("GET", <<"drafts">>, {"list", "get", "getAttachment"}),
           Requests("POST", <<"drafts">>, {"create", "send"}),
           Requests("PATCH", <<"drafts">>, {"update"}),
           Requests("DELETE", <<"drafts">>, {"delete"})}

AdminRequests ==
    UNION {Requests("GET", <<"domains">>, {"list", "get", "getZoneFile"}),
           Requests("POST", <<"domains">>, {"create", "verify"}),
           Requests("PATCH", <<"domains">>, {"update"}),
           Requests("DELETE", <<"domains">>, {"delete"}),
           Requests("GET", <<"pods">>, {"list", "get"}),
           Requests("POST", <<"pods">>, {"create"}),
           Requests("DELETE", <<"pods">>, {"delete"}),
           Requests("GET", <<"webhooks">>, {"list", "get"}),
           Requests("POST", <<"webhooks">>, {"create"}),
           Requests("PATCH", <<"webhooks">>, {"update"}),
           Requests("DELETE", <<"webhooks">>, {"delete"}),
           Requests("GET", <<"lists">>, {"list", "get"}),
           Requests("POST", <<"lists">>, {"create"}),
           Requests("DELETE", <<"lists">>, {"delete"}),
           Requests("GET", <<"apiKeys">>, {"list"}),
           Requests("POST", <<"apiKeys">>, {"create"}),
           Requests("DELETE", <<"apiKeys">>, {"delete"}),
           Requests("GET", <<"metrics">>, {"getOrg", "getInbox"}),
           Requests("GET", <<"organization">>, {"get"})}

AgentMailRequests ==
    InboxRequests \cup AdminRequests

-------------------------------------------------------------------------------
(* Hetzner                                                                 *)
ServerMethods ==
    UNION {Ops(<<"servers">>, {"list", "get", "getMetrics", "requestConsole"},
               {"create", "update", "poweron", "poweroff", "reboot", "reset", "shutdown",
                "resetPassword", "createImage", "enableRescue", "disableRescue", "rebuild",
                "changeType", "attachIso", "detachIso", "enableBackup", "disableBackup",
                "changeDnsPtr", "changeProtection", "attachToNetwork", "detachFromNetwork",
                "changeAliasIps", "addToPlacementGroup", "removeFromPlacementGroup"},
               {"delete"}),
           Ops(<<"serverTypes">>, {"list", "get"}, {}, {}),
           Ops(<<"images">>, {"list", "get"}, {"update", "changeProtection"}, {"delete"}),
           Ops(<<"isos">>, {"list", "get"}, {}, {})}

AddressMethods ==
    UNION {Ops(<<"placementGroups">>, {"list", "get"}, {"create", "update"}, {"delete"}),
           Ops(<<"networks">>, {"list", "get"},
               {"create", "update", "changeIpRange", "addSubnet", "deleteSubnet", "addRoute",
                "deleteRoute", "changeProtection"}, {"delete"}),
           Ops(<<"floatingIps">>, {"list", "get"},
               {"create", "update", "assign", "unassign", "changeDnsPtr", "changeProtection"},
               {"delete"}),
           Ops(<<"primaryIps">>, {"list", "get"},
               {"create", "update", "assign", "unassign", "changeDnsPtr", "changeProtection"},
               {"delete"})}

BalancerMethods ==
    UNION {Ops(<<"loadBalancers">>, {"list", "get", "getMetrics"},
               {"create", "update", "addTarget", "removeTarget", "addService", "updateService",
                "deleteService", "changeProtection", "changeAlgorithm", "changeType",
                "changeDnsPtr", "attachToNetwork", "detachFromNetwork",
                "enablePublicInterface", "disablePublicInterface"}, {"delete"}),
           Ops(<<"loadBalancerTypes">>, {"list", "get"}, {}, {}),
           Ops(<<"firewalls">>, {"list", "get"},
               {"create", "update", "setRules", "applyToResources", "removeFromResources"},
               {"delete"})}

StorageMethods ==
    UNION {Ops(<<"volumes">>, {"list", "get"},
               {"create", "update", "attach", "detach", "resize", "changeProtection"},
               {"delete"}),
           Ops(<<"sshKeys">>, {"list", "get"}, {"create", "update"}, {"delete"}),
           Ops(<<"certificates">>, {"list", "get"}, {"create", "update", "retry"}, {"delete"}),
           Ops(<<"datacenters">>, {"list", "get"}, {}, {}),
           Ops(<<"locations">>, {"list", "get"}, {}, {}),
           Ops(<<"pricing">>, {"get"}, {}, {}),
           Ops(<<"actions">>, {"list", "get"}, {}, {})}

HetznerMethods ==
    ServerMethods \cup AddressMethods \cup BalancerMethods \cup StorageMethods

\* What is not one of the CRUD actions is an action of the resource, a POST to its URL.
HetznerVerb(action) ==
    CASE action \in {"list", "get", "getMetrics"} -> "GET"
      [] action = "create" -> "POST"
      [] action = "update" -> "PUT"
      [] action = "delete" -> "DELETE"
      [] OTHER -> "POST"

\* A resource needs a path; pricing has none.
HasPath(resource) == resource # <<"pricing">>

HetznerRequests ==
    {[resource |-> x.resource, action |-> x.action, verb |-> HetznerVerb(x.action)] :
        x \in {y \in HetznerMethods : HasPath(y.resource)}}

ASSUME RestNamesAssumption ==
    \A table \in {GmailMethods, TrelloMethods, AirtableMethods, AgentMailMethods, HetznerMethods,
                  GmailRequests, TrelloRequests, AirtableRequests, AgentMailRequests} :
        UniqueNames(table)
===============================================================================
