----------------------------- MODULE SdkConnectors ----------------------------
(***************************************************************************)
(* The connectors of X and Notion, which call the SDK of the service.  The *)
(* X connector has a switch of its own over the methods; the one of Notion *)
(* takes the function of the SDK that has the name of the method.          *)
(***************************************************************************)
EXTENDS ConnectorMethods

-------------------------------------------------------------------------------
(* X                                                                       *)
PostMethods ==
    Ops(<<"posts">>,
        {"get", "getBatch", "searchRecent", "searchAll", "getQuoted", "getReposts",
         "getRepostedBy"}, {"create"}, {"delete"})

PostMetrics ==
    Ops(<<"posts">>, {"getAnalytics", "getInsights"}, {"hideReply"}, {})

UserMethods ==
    Ops(<<"users">>,
        {"getMe", "get", "getBatch", "getByUsername", "getFollowers", "getFollowing",
         "getMentions", "getTimeline", "getLikedPosts"}, {"follow", "unfollow", "like"}, {})

UserAndMessageMethods ==
    UNION {Ops(<<"users">>, {"getBookmarks", "getBlocking"}, {"unlike", "bookmark"},
               {"removeBookmark"}),
           Ops(<<"dm">>, {"getEvents", "getEventsByConversation", "getEventsByParticipant"},
               {"send", "sendToConversation", "createConversation"}, {})}

ListAndSpaceMethods ==
    UNION {Ops(<<"lists">>, {"get", "getPosts", "getMembers", "getFollowers"},
               {"create", "update", "addMember"}, {"delete"}),
           Ops(<<"spaces">>, {"get", "getBatch", "search", "getPosts"}, {}, {})}

CommunityMethods ==
    UNION {Ops(<<"communities">>, {"get", "search"}, {}, {}),
           Ops(<<"communityNotes">>, {"search"}, {"create", "evaluate"}, {"delete"}),
           Ops(<<"trends">>, {"getByLocation", "getPersonalized"}, {}, {}),
           Ops(<<"news">>, {"search", "get"}, {}, {}),
           Ops(<<"media">>, {"getStatus", "getAnalytics"}, {"upload"}, {})}

UsageMethods ==
    Ops(<<"usage">>, {"get"}, {}, {})

XMethods ==
    PostMethods \cup PostMetrics \cup UserMethods \cup UserAndMessageMethods
      \cup ListAndSpaceMethods \cup CommunityMethods \cup UsageMethods

\* What the functions of the SDK are called tells which of them read and delete;
\* of the others ("call") it is the SDK that knows the request.
PostRequests ==
    UNION {Requests("GET", <<"posts">>,
               {"get", "getBatch", "searchRecent", "searchAll", "getQuoted", "getReposts",
                "getRepostedBy", "getAnalytics", "getInsights"}),
           Requests("call", <<"posts">>, {"create", "hideReply"}),
           Requests("DELETE", <<"posts">>, {"delete"}),
           Requests("GET", <<"users">>,
               {"getMe", "get", "getBatch", "getByUsername", "getFollowers", "getFollowing",
                "getMentions", "getTimeline", "getLikedPosts", "getBookmarks", "getBlocking"}),
           Requests("call", <<"users">>, {"follow", "unfollow", "like", "unlike", "bookmark"}),
           Requests("DELETE", <<"users">>, {"removeBookmark"}),
           Requests("GET", <<"dm">>,
               {"getEvents", "getEventsByConversation", "getEventsByParticipant"}),
           Requests("call", <<"dm">>, {"send"})}

MessageRequests ==
    UNION {Requests("call", <<"dm">>, {"sendToConversation", "createConversation"}),
           Requests("GET", <<"lists">>, {"get", "getPosts", "getMembers", "getFollowers"}),
           Requests("call", <<"lists">>, {"create", "update", "addMember"}),
           Requests("DELETE", <<"lists">>, {"delete"}),
           Requests("GET", <<"spaces">>, {"get", "getBatch", "search", "getPosts"}),
           Requests("GET", <<"communities">>, {"get", "search"}),
           Requests("call", <<"communityNotes">>, {"create", "evaluate"}),
           Requests("GET", <<"communityNotes">>, {"search"}),
           Requests("DELETE", <<"communityNotes">>, {"delete"}),
           Requests("GET", <<"trends">>, {"getByLocation", "getPersonalized"}),
           Requests("GET", <<"news">>, {"search", "get"}),
           Requests("call", <<"media">>, {"upload"}),
           Requests("GET", <<"media">>, {"getStatus", "getAnalytics"}),
           Requests("GET", <<"usage">>, {"get"})}

XRequests ==
    PostRequests \cup MessageRequests

-------------------------------------------------------------------------------
(* Notion                                                                  *)
blocksMethods ==
    UNION {Ops(<<"blocks">>, {"retrieve"}, {"update"}, {"delete"}),
           Ops(<<"blocks", "children">>, {"list"}, {"append"}, {})}

commentsMethods ==
    Ops(<<"comments">>, {"list", "retrieve"}, {"create"}, {})

databasesMethods ==
    Ops(<<"databases">>, {"retrieve"}, {"create", "update"}, {})

dataSourcesMethods ==
    Ops(<<"dataSources">>, {"retrieve", "query", "listTemplates"}, {"create", "update"}, {})

fileUploadsMethods ==
    Ops(<<"fileUploads">>, {"retrieve", "list"}, {"create", "send", "complete"}, {})

pagesMethods ==
    UNION {Ops(<<"pages">>, {"retrieve", "retrieveMarkdown"},
               {"create", "update", "move", "updateMarkdown"}, {}),
           Ops(<<"pages", "properties">>, {"retrieve"}, {}, {})}

searchMethods ==
    Ops(<<>>, {"search"}, {}, {})

usersMethods ==
    Ops(<<"users">>, {"retrieve", "list", "me"}, {}, {})

viewsMethods ==
    UNION {Ops(<<"views">>, {"retrieve", "list"}, {"create", "update"}, {"delete"}),
           Ops(<<"views", "queries">>, {"results"}, {"create"}, {"delete"})}

NotionMethods ==
    blocksMethods \cup commentsMethods \cup databasesMethods \cup dataSourcesMethods
      \cup fileUploadsMethods \cup pagesMethods \cup searchMethods \cup usersMethods
      \cup viewsMethods

ASSUME SdkNamesAssumption ==
    \A table \in {XMethods, XRequests, NotionMethods} : UniqueNames(table)
===============================================================================
