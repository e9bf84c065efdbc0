-------------------------- MODULE OpencodeRequests --------------------------
(***************************************************************************)
(* What the Opencode client asks of the server                             *)
(* (crates/opencode/src/client.rs).  The SDK holds the routes of the HTTP  *)
(* API twice: in the table of operations by id, behind call_operation, and *)
(* in the methods of the namespaces, of which some name a route and some   *)
(* go through the table.  A method that names a route is listed here under *)
(* the id of the operation it stands for.  A path is its segments; a       *)
(* placeholder is filled from the caller's map of path parameters, whose   *)
(* values are here told apart by their keys.                               *)
(***************************************************************************)
EXTENDS Naturals, FiniteSetsExt, SequencesExt

Route(namespace, base, r) ==
    [op |-> namespace \o "." \o r[1], method |-> r[2], path |-> base \o r[3]]

On(namespace, base, routes) == {Route(namespace, base, r) : r \in routes}

----------------------------------------------------------------------------
(* The operations by id *)

AppOperations ==
    On("app", <<"agent">>, {<<"agents", "GET", <<>>>>})
    \cup On("app", <<"log">>, {<<"log", "POST", <<>>>>})
    \cup On("app", <<"skill">>, {<<"skills", "GET", <<>>>>})

AuthOperations ==
    On("auth", <<"auth", "{providerID}">>, {
            <<"remove", "DELETE", <<>>>>, <<"set", "PUT", <<>>>>})

CommandOperations ==
    On("command", <<"command">>, {<<"list", "GET", <<>>>>})

ConfigOperations ==
    On("config", <<"config">>, {
            <<"get", "GET", <<>>>>, <<"providers", "GET", <<"providers">>>>,
            <<"update", "PATCH", <<>>>>})

EventOperations ==
    On("event", <<"event">>, {<<"subscribe", "GET", <<>>>>})

ExperimentalOperations ==
    On("experimental", <<"experimental">>, {
            <<"resource.list", "GET", <<"resource">>>>,
            <<"session.list", "GET", <<"session">>>>,
            <<"workspace.create", "POST", <<"workspace">>>>,
            <<"workspace.list", "GET", <<"workspace">>>>,
            <<"workspace.remove", "DELETE", <<"workspace", "{id}">>>>})

FileOperations ==
    On("file", <<"file">>, {
            <<"list", "GET", <<>>>>, <<"read", "GET", <<"content">>>>,
            <<"status", "GET", <<"status">>>>})

FindOperations ==
    On("find", <<"find">>, {
            <<"files", "GET", <<"file">>>>, <<"symbols", "GET", <<"symbol">>>>,
            <<"text", "GET", <<>>>>})

FormatterOperations ==
    On("formatter", <<"formatter">>, {<<"status", "GET", <<>>>>})

GlobalOperations ==
    On("global", <<"global">>, {
            <<"config.get", "GET", <<"config">>>>,
            <<"config.update", "PATCH", <<"config">>>>,
            <<"dispose", "POST", <<"dispose">>>>, <<"event", "GET", <<"event">>>>,
            <<"health", "GET", <<"health">>>>, <<"upgrade", "POST", <<"upgrade">>>>})

InstanceOperations ==
    On("instance", <<"instance">>, {<<"dispose", "POST", <<"dispose">>>>})

LspOperations ==
    On("lsp", <<"lsp">>, {<<"status", "GET", <<>>>>})

McpOperations ==
    On("mcp", <<"mcp">>, {<<"add", "POST", <<>>>>, <<"status", "GET", <<>>>>})
    \cup On("mcp", <<"mcp", "{name}">>, {
            <<"auth.authenticate", "POST", <<"auth", "authenticate">>>>,
            <<"auth.callback", "POST", <<"auth", "callback">>>>,
            <<"auth.remove", "DELETE", <<"auth">>>>, <<"auth.start", "POST", <<"auth">>>>,
            <<"connect", "POST", <<"connect">>>>,
            <<"disconnect", "POST", <<"disconnect">>>>})

PartOperations ==
    On("part", <<"session", "{sessionID}">>, {
            <<"delete", "DELETE", <<"message", "{messageID}", "part", "{partID}">>>>,
            <<"update", "PATCH", <<"message", "{messageID}", "part", "{partID}">>>>})

PathOperations ==
    On("path", <<"path">>, {<<"get", "GET", <<>>>>})

PermissionOperations ==
    On("permission", <<"permission">>, {<<"list", "GET", <<>>>>})
    \cup On("permission", <<"permission", "{requestID}">>, {
            <<"reply", "POST", <<"reply">>>>})
    \cup On("permission", <<"session", "{sessionID}">>, {
            <<"respond", "POST", <<"permissions", "{permissionID}">>>>})

ProjectOperations ==
    On("project", <<"project">>, {
            <<"current", "GET", <<"current">>>>, <<"initGit", "POST", <<"git", "init">>>>,
            <<"list", "GET", <<>>>>})
    \cup On("project", <<"project", "{projectID}">>, {<<"update", "PATCH", <<>>>>})

ProviderOperations ==
    On("provider", <<"provider">>, {
            <<"auth", "GET", <<"auth">>>>, <<"list", "GET", <<>>>>})
    \cup On("provider", <<"provider", "{providerID}">>, {
            <<"oauth.authorize", "POST", <<"oauth", "authorize">>>>,
            <<"oauth.callback", "POST", <<"oauth", "callback">>>>})

PtyOperations ==
    On("pty", <<"pty", "{ptyID}">>, {
            <<"connect", "GET", <<"connect">>>>, <<"get", "GET", <<>>>>,
            <<"remove", "DELETE", <<>>>>, <<"update", "PUT", <<>>>>})
    \cup On("pty", <<"pty">>, {<<"create", "POST", <<>>>>, <<"list", "GET", <<>>>>})

QuestionOperations ==
    On("question", <<"question">>, {<<"list", "GET", <<>>>>})
    \cup On("question", <<"question", "{requestID}">>, {
            <<"reject", "POST", <<"reject">>>>, <<"reply", "POST", <<"reply">>>>})

SessionOperations ==
    On("session", <<"session", "{sessionID}">>, {
            <<"abort", "POST", <<"abort">>>>, <<"children", "GET", <<"children">>>>,
            <<"command", "POST", <<"command">>>>, <<"delete", "DELETE", <<>>>>,
            <<"deleteMessage", "DELETE", <<"message", "{messageID}">>>>,
            <<"diff", "GET", <<"diff">>>>, <<"fork", "POST", <<"fork">>>>,
            <<"get", "GET", <<>>>>, <<"init", "POST", <<"init">>>>,
            <<"message", "GET", <<"message", "{messageID}">>>>,
            <<"messages", "GET", <<"message">>>>, <<"prompt", "POST", <<"message">>>>,
            <<"prompt_async", "POST", <<"prompt_async">>>>,
            <<"revert", "POST", <<"revert">>>>, <<"share", "POST", <<"share">>>>,
            <<"shell", "POST", <<"shell">>>>, <<"summarize", "POST", <<"summarize">>>>,
            <<"todo", "GET", <<"todo">>>>, <<"unrevert", "POST", <<"unrevert">>>>,
            <<"unshare", "DELETE", <<"share">>>>, <<"update", "PATCH", <<>>>>})
    \cup On("session", <<"session">>, {
            <<"create", "POST", <<>>>>, <<"list", "GET", <<>>>>,
            <<"status", "GET", <<"status">>>>})

ToolOperations ==
    On("tool", <<"experimental">>, {
            <<"ids", "GET", <<"tool", "ids">>>>, <<"list", "GET", <<"tool">>>>})

TuiOperations ==
    On("tui", <<"tui">>, {
            <<"appendPrompt", "POST", <<"append-prompt">>>>,
            <<"clearPrompt", "POST", <<"clear-prompt">>>>,
            <<"control.next", "GET", <<"control", "next">>>>,
            <<"control.response", "POST", <<"control", "response">>>>,
            <<"executeCommand", "POST", <<"execute-command">>>>,
            <<"openHelp", "POST", <<"open-help">>>>,
            <<"openModels", "POST", <<"open-models">>>>,
            <<"openSessions", "POST", <<"open-sessions">>>>,
            <<"openThemes", "POST", <<"open-themes">>>>,
            <<"publish", "POST", <<"publish">>>>,
            <<"selectSession", "POST", <<"select-session">>>>,
            <<"showToast", "POST", <<"show-toast">>>>,
            <<"submitPrompt", "POST", <<"submit-prompt">>>>})

VcsOperations ==
    On("vcs", <<"vcs">>, {<<"get", "GET", <<>>>>})

WorktreeOperations ==
    On("worktree", <<"experimental">>, {
            <<"create", "POST", <<"worktree">>>>, <<"list", "GET", <<"worktree">>>>,
            <<"remove", "DELETE", <<"worktree">>>>,
            <<"reset", "POST", <<"worktree", "reset">>>>})

OperationSpec ==
    UNION {AppOperations, AuthOperations, CommandOperations, ConfigOperations,
           EventOperations, ExperimentalOperations, FileOperations, FindOperations,
           FormatterOperations, GlobalOperations, InstanceOperations, LspOperations,
           McpOperations, PartOperations, PathOperations, PermissionOperations,
           ProjectOperations, ProviderOperations, PtyOperations, QuestionOperations,
           SessionOperations, ToolOperations, TuiOperations, VcsOperations,
           WorktreeOperations}

\* operations whose answer is a stream of events
SseOperations == {"global.event", "event.subscribe"}

----------------------------------------------------------------------------
(* The namespaces: first the methods that name a route *)

FindApi ==
    On("find", <<"find">>, {
            <<"text", "GET", <<>>>>, <<"files", "GET", <<"file">>>>,
            <<"symbols", "GET", <<"symbol">>>>})

SessionApi ==
    On("session", <<"session">>, {
            <<"list", "GET", <<>>>>, <<"create", "POST", <<>>>>,
            <<"status", "GET", <<"status">>>>})
    \cup On("session", <<"session", "{sessionID}">>, {
            <<"delete", "DELETE", <<>>>>, <<"get", "GET", <<>>>>,
            <<"update", "PATCH", <<>>>>, <<"children", "GET", <<"children">>>>,
            <<"todo", "GET", <<"todo">>>>, <<"init", "POST", <<"init">>>>,
            <<"fork", "POST", <<"fork">>>>, <<"abort", "POST", <<"abort">>>>,
            <<"share", "POST", <<"share">>>>, <<"unshare", "DELETE", <<"share">>>>,
            <<"diff", "GET", <<"diff">>>>, <<"summarize", "POST", <<"summarize">>>>,
            <<"messages", "GET", <<"message">>>>, <<"prompt", "POST", <<"message">>>>,
            <<"message", "GET", <<"message", "{messageID}">>>>,
            <<"prompt_async", "POST", <<"prompt_async">>>>,
            <<"command", "POST", <<"command">>>>, <<"shell", "POST", <<"shell">>>>,
            <<"revert", "POST", <<"revert">>>>, <<"unrevert", "POST", <<"unrevert">>>>,
            <<"deleteMessage", "DELETE", <<"message", "{messageID}">>>>})
    \cup On("part", <<"session", "{sessionID}">>, {
            <<"update", "PATCH", <<"message", "{messageID}", "part", "{partID}">>>>,
            <<"delete", "DELETE", <<"message", "{messageID}", "part", "{partID}">>>>})
    \cup On("permission", <<"session", "{sessionID}">>, {
            <<"respond", "POST", <<"permissions", "{permissionID}">>>>})

GlobalApi ==
    On("global", <<"global">>, {
            <<"health", "GET", <<"health">>>>, <<"dispose", "POST", <<"dispose">>>>,
            <<"config.get", "GET", <<"config">>>>,
            <<"config.update", "PATCH", <<"config">>>>, <<"event", "GET", <<"event">>>>})

ProjectApi ==
    On("project", <<"project">>, {
            <<"list", "GET", <<>>>>, <<"current", "GET", <<"current">>>>})
    \cup On("project", <<"project", "{projectID}">>, {<<"update", "PATCH", <<>>>>})

FileApi ==
    On("file", <<"file">>, {<<"list", "GET", <<>>>>, <<"read", "GET", <<"content">>>>})

LspApi ==
    On("lsp", <<"lsp">>, {<<"status", "GET", <<>>>>})

ToolApi ==
    On("tool", <<"experimental">>, {
            <<"ids", "GET", <<"tool", "ids">>>>, <<"list", "GET", <<"tool">>>>})

ProviderApi ==
    On("provider", <<"provider">>, {
            <<"list", "GET", <<>>>>, <<"auth", "GET", <<"auth">>>>})

OauthApi ==
    On("provider", <<"provider", "{id}">>, {
            <<"oauth.authorize", "POST", <<"oauth", "authorize">>>>,
            <<"oauth.callback", "POST", <<"oauth", "callback">>>>})

McpApi ==
    On("mcp", <<"mcp">>, {<<"status", "GET", <<>>>>, <<"add", "POST", <<>>>>})
    \cup On("mcp", <<"mcp", "{name}">>, {
            <<"connect", "POST", <<"connect">>>>,
            <<"disconnect", "POST", <<"disconnect">>>>})

\* A plausible bug: the callback of an authentication is sent to its start.
McpAuthApi_Swapped ==
    On("mcp", <<"mcp", "{name}">>, {<<"auth.callback", "POST", <<"auth">>>>})

McpAuthApi ==
    On("mcp", <<"mcp", "{name}">>, {
            <<"auth.remove", "DELETE", <<"auth">>>>, <<"auth.start", "POST", <<"auth">>>>,
            <<"auth.callback", "POST", <<"auth", "callback">>>>,
            <<"auth.authenticate", "POST", <<"auth", "authenticate">>>>})

PtyApi ==
    On("pty", <<"pty">>, {<<"list", "GET", <<>>>>, <<"create", "POST", <<>>>>})
    \cup On("pty", <<"pty", "{ptyID}">>, {
            <<"remove", "DELETE", <<>>>>, <<"get", "GET", <<>>>>, <<"update", "PUT", <<>>>>,
            <<"connect", "GET", <<"connect">>>>})

EventApi ==
    On("event", <<"event">>, {<<"subscribe", "GET", <<>>>>})
----------------------------------------------------------------------------
(* The methods that name an operation *)

GlobalApiCalls == {"global.upgrade"}
AppApi == {"app.agents", "app.log", "app.skills"}
CommandApi == {"command.list"}
InstanceApi == {"instance.dispose"}
ConfigApi == {"config.get", "config.update", "config.providers"}
ProjectApiCalls == {"project.initGit"}
WorkspaceApi ==
    {"experimental.workspace.list", "experimental.workspace.create",
     "experimental.workspace.remove"}
ExperimentalSessionApi == {"experimental.session.list"}
ResourceApi == {"experimental.resource.list"}
WorktreeApi ==
    {"worktree.list", "worktree.create", "worktree.remove", "worktree.reset"}
PathApi == {"path.get"}
FileApiCalls == {"file.status"}
AuthApi == {"auth.set", "auth.remove"}
QuestionApi == {"question.list", "question.reply", "question.reject"}
PartApi == {"part.update", "part.delete"}
PermissionApi == {"permission.list", "permission.reply", "permission.respond"}
FormatterApi == {"formatter.status"}
VcsApi == {"vcs.get"}
TuiApi ==
    {"tui.appendPrompt", "tui.clearPrompt", "tui.executeCommand",
     "tui.openHelp", "tui.openModels", "tui.openSessions", "tui.openThemes",
     "tui.publish", "tui.selectSession", "tui.showToast", "tui.submitPrompt"}
TuiControlApi == {"tui.control.next", "tui.control.response"}

----------------------------------------------------------------------------
(* The namespaces of the client *)

Direct == UNION {FindApi, SessionApi, GlobalApi, ProjectApi, FileApi, LspApi, ToolApi,
                 ProviderApi, OauthApi, McpApi, McpAuthApi, PtyApi, EventApi}

ByOperation == UNION {GlobalApiCalls, AppApi, CommandApi, InstanceApi, ConfigApi,
                      ProjectApiCalls, WorkspaceApi, ExperimentalSessionApi, ResourceApi,
                      WorktreeApi, PathApi, FileApiCalls, AuthApi, QuestionApi, PartApi,
                      PermissionApi, FormatterApi, VcsApi, TuiApi, TuiControlApi}

OperationRoutes(op) == {r \in OperationSpec : r.op = op}

MethodRoutes(op) ==
    {r \in Direct : r.op = op} \cup (IF op \in ByOperation THEN OperationRoutes(op) ELSE {})

----------------------------------------------------------------------------
(* build_url *)

\* the placeholders of the routes, and the names resolve_path_value tries for each,
\* in its order
KeysOf ==
    [s \in {"{id}", "{name}", "{sessionID}", "{messageID}", "{partID}", "{permissionID}",
            "{projectID}", "{providerID}", "{ptyID}", "{requestID}"} |->
        CASE s = "{id}"           -> <<"id">>
          [] s = "{name}"         -> <<"name">>
          [] s = "{sessionID}"    -> <<"sessionID", "sessionid", "session", "session_id">>
          [] s = "{messageID}"    -> <<"messageID", "messageid", "message", "message_id">>
          [] s = "{partID}"       -> <<"partID", "partid", "part", "part_id">>
          [] s = "{permissionID}" ->
                <<"permissionID", "permissionid", "permission", "permission_id">>
          [] s = "{projectID}"    -> <<"projectID", "projectid", "project", "project_id">>
          [] s = "{providerID}"   -> <<"providerID", "providerid", "provider", "provider_id">>
          [] s = "{ptyID}"        -> <<"ptyID", "ptyid", "pty", "pty_id">>
          [] s = "{requestID}"    -> <<"requestID", "requestid", "request", "request_id">>]

IsPlaceholder(segment) == segment \in DOMAIN KeysOf

Placeholders(path) == {i \in DOMAIN path : IsPlaceholder(path[i])}

Keys(segment) == KeysOf[segment]

\* A plausible bug: `id` stands for any parameter of any route.
Fallback_Always(path) == <<"id">>

\* `id` stands for the parameter of a route that has only one
Fallback(path) == IF Cardinality(Placeholders(path)) = 1 THEN <<"id">> ELSE <<>>

NoKey == ""

ResolvePathValue(params, path, i) ==
    LET keys == Keys(path[i]) \o Fallback(path)
        given == {n \in DOMAIN keys : keys[n] \in params}
    IN  IF given = {} THEN NoKey ELSE keys[Min(given)]

\* the key each placeholder of the path is filled from
Filled(params, path) == [i \in Placeholders(path) |-> ResolvePathValue(params, path, i)]

\* The request for a route, or the refusal of one with a parameter missing.
Render(route, params) ==
    LET filled == Filled(params, route.path)
    IN  IF NoKey \in {filled[i] : i \in DOMAIN filled}
        THEN [sent |-> FALSE]
        ELSE [sent |-> TRUE, method |-> route.method, filled |-> filled,
              path |-> [i \in DOMAIN route.path |->
                          IF i \in DOMAIN filled THEN "=" \o filled[i] ELSE route.path[i]]]

\* the names a caller may think of for the parameters of a route
Candidates(routes) ==
    {"id"} \cup UNION {UNION {Range(Keys(r.path[i])) : i \in Placeholders(r.path)} :
                      r \in routes}
=============================================================================
