SPECIFICATION PartsSpec
CONSTANTS
    \* Ingress
    Requests <- MCAllRequests
    WebhookOptions <- MCWebhook
    Named <- MCNamed
    Endpoints <- MCEndpoints
    MailOptions <- MCMail
    Mails <- MCMails
    MaxNonces = 2
    Minute = 2
    MaxClock = 3
    IngressBudgets <- MCQuotas
    \* Plugins
    Artifacts <- MCArtifacts
    HostOptions <- MCOptions
    BuiltIn <- MCBuiltIn
    Abi = 1
    MaxPlugins = 2
    MaxObjects = 2
    MaxRegistrations = 2
    \* Boot
    Configs <- MCConfigs
    Absent = Absent
    MaxReliable = 3
    MaxRoutes = 2
    MaxHandles = 4
    MaxTools = 36
    MaxTurns = 2
    \* Browser
    BrowserCalls <- MCBrowserCalls
    BrowserSettings <- MCSettings
    Discoveries <- MCDiscoveries
    Sites <- MCSites
    MaxReceives = 2
    MaxListed = 2
    BrowserBudgets <- MCBrowserBudgets
    \* Remote
    RemoteServers <- MCServers
    McpCalls <- MCMcpCalls
    HttpCalls <- MCHttpCalls
    Replies <- MCReplies
    PipeRoom = 2
    McpMaxOutput = 2
    RemoteBudgets <- MCRemoteBudgets
INVARIANTS IngressSound HostSound BootSound BrowserSound RemoteSound
PROPERTIES GuestOutcomeTrue
CHECK_DEADLOCK FALSE
