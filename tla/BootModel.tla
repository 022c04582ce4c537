----------------------------- MODULE BootModel ------------------------------
(* The instance of Boot that TLC checks: configurations that take every    *)
(* branch of the bootstrap.                                                *)
EXTENDS Boot

Model(kind) ==
    [kind |-> kind, model |-> "m", api_key |-> Absent, secret_access_key |-> Absent,
     credential_env |-> Absent,
     session_token |-> Absent, thinking_level |-> Absent, reasoning_effort |-> Absent,
     mcp_server |-> Absent,
     fallback_providers |-> Absent, routes |-> Absent, default |-> Absent, tool_provider |-> Absent]
Server(name, transport, deferred, tools) ==
    [name |-> name, enabled |-> TRUE, transport |-> transport, deferred |-> deferred, tools |-> tools,
     command |-> "c", url |-> "u"]

Plain ==
    [models |-> [p \in {"a", "b"} |-> Model("openai")], fallback |-> "a", providerDefault |-> Absent,
     defaultModel |-> Absent, fallbacks |-> Absent, apiKey |-> Absent, apiKeyEnv |-> Absent, storeAttached |-> TRUE,
     secrets |-> [x \in {<<"a", "api_key">>} |-> "s"], groups |-> <<>>, mcp |-> <<>>, browser |-> FALSE,
     sopEnabled |-> FALSE, sopPath |-> Absent,
     cronEnabled |-> FALSE, cronSchedule |-> Absent, cronPrompt |-> "p", cronTools |-> FALSE,
     hardware |-> FALSE, memory |-> "sqlite",
     channels |-> {}, telegram |-> [env |-> "", token |-> "t"], webhookPath |-> Absent,
     rabbitmq |-> [url |-> Absent, queue |-> "q"], mailInbox |-> Absent, asr |-> "off", tts |-> "off",
     rules |-> [x \in {} |-> Model("")], sessions |-> "sqlite",
     gateway |-> FALSE, gatewayBind |-> "local", observe |-> TRUE,
     delivery |-> Absent, heartbeat |-> FALSE]

Everything ==
    [Plain EXCEPT !.fallbacks = <<"a", "b", "b">>, !.browser = TRUE, !.sopEnabled = TRUE, !.cronTools = TRUE,
        !.mcp = <<Server("far", "http", FALSE, 2), Server("near", "stdio", TRUE, 2)>>,
        !.channels = {"telegram", "mail", "webhook"}, !.mailInbox = "i", !.asr = "whisper_cpp", !.tts = "piper",
        !.gateway = TRUE, !.heartbeat = TRUE,
        !.rules = [x \in {"telegram"} |-> [allow |-> <<"time">>, deny |-> <<>>, autonomy |-> "full"]]]
Reliable ==
    [Plain EXCEPT !.models.a.kind = "reliable", !.models.a.fallback_providers = <<"b">>, !.storeAttached = FALSE,
        !.groups = <<"read_only", "no_mcp">>, !.mcp = Everything.mcp, !.memory = "none",
        !.channels = {"rabbitmq"}, !.rabbitmq.url = "r", !.tts = "other"]
RouterConfig ==
    [Plain EXCEPT !.models.a.kind = "router", !.models.a.default = "b", !.models.a.tool_provider = "b",
        !.models.a.routes = <<[hint |-> "h", provider |-> "b"], [hint |-> "k", provider |-> "b"]>>,
        !.groups = <<"public_safe">>, !.browser = TRUE, !.cronTools = TRUE,
        !.mcp = Everything.mcp, !.gateway = TRUE, !.observe = FALSE, !.asr = "other"]
Refused ==
    [Plain EXCEPT !.models.b.kind = "claude-code", !.fallbacks = <<"b">>, !.groups = <<"no_network">>,
        !.mcp = Everything.mcp]
Crowded ==
    [Plain EXCEPT !.mcp = <<[Server("idle", "sse", FALSE, 1) EXCEPT !.enabled = FALSE],
                Server("many", "http", FALSE, 4), Server("more", "sse", FALSE, 7),
                Server("most", "stdio", FALSE, 4)>>,
        !.channels = {"telegram"}, !.telegram.token = Absent,
        !.secrets = [x \in {<<"telegram", "bot_token">>} |-> "s"], !.sessions = "other",
        !.cronEnabled = TRUE, !.cronSchedule = "s"]
MCConfigs ==
    {Plain, Everything, Reliable, RouterConfig, Refused, Crowded, [Plain EXCEPT !.hardware = TRUE],
     [Plain EXCEPT !.models.a.model = Absent, !.models.a.kind = "bedrock"]}
=============================================================================
