-------------------------------- MODULE Boot --------------------------------
(* The bootstrap (runtime/bootstrap.c): the objects a daemon or a CLI       *)
(* session is made of, created one after the other from the configuration,  *)
(* with a failure possible at every one of them, and taken down again by    *)
(* boot_owned_clear.  An object is [kind, n, name, from]; `from' is where a *)
(* tool comes from: "builtin", or the transport of its MCP server.          *)
EXTENDS Integers, Sequences, FiniteSets

CONSTANTS
    Configs,            \* the configurations booted from
    Absent,             \* a property the configuration does not have
    MaxReliable, MaxRoutes, MaxHandles, MaxTools,   \* BOOT_MAX_*
    MaxTurns            \* turns of a session

Transports == {"stdio", "http", "sse", "unknown"}

ASSUME BootAssumption ==
    /\ {MaxReliable, MaxRoutes, MaxHandles, MaxTools} \subseteq Nat \ {0} /\ MaxTurns \in Nat
    /\ \A c \in Configs : \A i \in DOMAIN c.mcp : c.mcp[i].tools \in Nat /\ c.mcp[i].transport \in Transports

VARIABLES
    boot,       \* [kind, at, i, phase]: the step, and how far its loop is
    cfg,        \* the configuration
    owned,      \* boot_owned: the members, "" or the objects
    live,       \* the objects that exist
    twice,      \* those destroyed when they no longer existed
    todo,       \* what boot_owned_clear and its caller have still to destroy
    turns       \* the turns of the session: the id and the configuration its tools saw

bootVars == <<boot, cfg, owned, live, twice, todo, turns>>

Obj(kind, n, name, from) == [kind |-> kind, n |-> n, name |-> name, from |-> from]
One(kind) == Obj(kind, 0, "", "")
ConfigObject == One("config")
SecretStore == One("secret_store")

----------------------------------------------------------------------------
(* Configuration.                                                          *)
GetModelProp(c, p, name) == IF p \in DOMAIN c.models THEN c.models[p][name] ELSE Absent
ModelPropPresent(c, p, name) == GetModelProp(c, p, name) # Absent
OrElse(value, fallback) == IF value = Absent THEN fallback ELSE value

(* The secrets: a store that is not attached, or has nothing, is no error; *)
(* one that fails is a failure of the step that asks it.                   *)
TrySecretStoreProp(c, path) ==
    IF ~c.storeAttached \/ path \notin DOMAIN c.secrets THEN Absent ELSE c.secrets[path]
TryModelSecretStoreProp(c, p, name) == TrySecretStoreProp(c, <<p, name>>)

ResolveDefaultProvider(c) ==
    LET named == OrElse(c.fallback, c.providerDefault) IN IF named = "" THEN "mock" ELSE named
ResolveDefaultModel(c) == OrElse(GetModelProp(c, ResolveDefaultProvider(c), "model"), c.defaultModel)

(* parse_string_array takes what stands between quotes; a list is given as *)
(* the sequence of them.                                                   *)
ParseStringArray(list) == IF list = Absent THEN <<>> ELSE list
StringArrayPropContains(c, value) == \E i \in DOMAIN c.groups : c.groups[i] = value
ConfigPropNonempty(value) == value \notin {Absent, ""}

----------------------------------------------------------------------------
(* Providers.                                                              *)
ProviderDefaultCredentialEnv(kind) ==
    CASE kind = "anthropic" -> "ANTHROPIC_API_KEY" [] kind = "bedrock" -> "AWS_ACCESS_KEY_ID"
      [] kind \in {"openai", "azure-openai"} -> "OPENAI_API_KEY" [] kind = "openrouter" -> "OPENROUTER_API_KEY"
      [] kind = "gemini" -> "GEMINI_API_KEY" [] kind = "copilot" -> "GITHUB_COPILOT_TOKEN"
      [] kind = "groq" -> "GROQ_API_KEY" [] kind = "mistral" -> "MISTRAL_API_KEY"
      [] kind \in {"xai", "grok"} -> "XAI_API_KEY" [] kind = "deepseek" -> "DEEPSEEK_API_KEY"
      [] kind = "moonshot" -> "MOONSHOT_API_KEY" [] kind \in {"zai", "z.ai", "glm"} -> "ZAI_API_KEY"
      [] kind = "minimax" -> "MINIMAX_API_KEY" [] kind = "qianfan" -> "QIANFAN_API_KEY"
      [] kind = "venice" -> "VENICE_API_KEY"
      [] kind \in {"vercel-ai-gateway", "vercel"} -> "VERCEL_AI_GATEWAY_API_KEY"
      [] kind \in {"cloudflare-gateway", "cloudflare"} -> "CLOUDFLARE_API_TOKEN"
      [] kind = "opencode" -> "OPENCODE_API_KEY" [] kind = "synthetic" -> "SYNTHETIC_API_KEY"
      [] OTHER -> ""

CompatiblePresets ==
    {"groq", "mistral", "xai", "grok", "deepseek", "moonshot", "zai", "z.ai", "glm", "minimax", "qianfan",
     "venice", "vercel-ai-gateway", "vercel", "cloudflare-gateway", "cloudflare", "opencode", "synthetic"}
ProviderKinds ==
    {"gemini", "anthropic", "openai", "openrouter", "openai-compatible", "azure-openai", "ollama", "llamacpp",
     "llama.cpp", "sglang", "vllm", "bedrock", "gemini-cli", "copilot", "claude-code", "telnyx", "kilocli",
     "mock"} \union CompatiblePresets

ProviderKind(c, p) == OrElse(GetModelProp(c, p, "kind"), p)

(* A key of the model, of the provider section, then of the secret store;  *)
(* a stored key is the api key of bedrock and the secret of the others.    *)
ApiKeyOf(c, p) == OrElse(GetModelProp(c, p, "api_key"), OrElse(c.apiKey, ""))
StoredKeyOf(c, p) ==
    OrElse(TryModelSecretStoreProp(c, p, "api_key"), OrElse(TrySecretStoreProp(c, <<"provider", "api_key">>), ""))
ModelSecret(c, p, name) == OrElse(GetModelProp(c, p, name), OrElse(TryModelSecretStoreProp(c, p, name), ""))
CredentialOf(c, p) ==
    LET key == ApiKeyOf(c, p)
        stored == IF key = "" THEN StoredKeyOf(c, p) ELSE ""
        bedrock == ProviderKind(c, p) = "bedrock"
    IN  [api_key |-> IF bedrock /\ key = "" THEN stored ELSE key,
         secret |-> IF ~bedrock /\ stored # "" THEN stored ELSE ModelSecret(c, p, "secret_access_key"),
         session_token |-> ModelSecret(c, p, "session_token"),
         env |-> OrElse(GetModelProp(c, p, "credential_env"), ProviderDefaultCredentialEnv(ProviderKind(c, p))),
         generic |-> OrElse(c.apiKeyEnv, "SMOLCLAW_PROVIDER_API_KEY")]

(* A claude-code provider takes its command or url from the first MCP      *)
(* server of the name it gives.                                            *)
McpNamed(c, name) == {i \in DOMAIN c.mcp : c.mcp[i].name = name}
ClaudeCodeServerUsable(c, p) ==
    LET named == McpNamed(c, OrElse(GetModelProp(c, p, "mcp_server"), "claude-code"))
    IN  \E i \in named :
          /\ \A j \in named : i <= j
          /\ c.mcp[i].enabled
          /\ c.mcp[i].transport = "stdio" => c.mcp[i].command # ""
          /\ c.mcp[i].transport \in {"http", "sse"} => c.mcp[i].url # ""
          /\ c.mcp[i].transport # "unknown"

ParseThinkingLevel(value) == value \in {"", "default", "disabled", "none", "off", "low", "medium", "high"}

(* What create_named_provider needs before it calls the constructor.       *)
NamedProviderPossible(c, p) ==
    /\ OrElse(GetModelProp(c, p, "model"), c.defaultModel) # Absent
    /\ ParseThinkingLevel(OrElse(GetModelProp(c, p, "thinking_level"),
                                 OrElse(GetModelProp(c, p, "reasoning_effort"), "")))
    /\ ProviderKind(c, p) = "claude-code" => ClaudeCodeServerUsable(c, p)
    /\ ProviderKind(c, p) \in ProviderKinds

NamedProvider(p, n) == Obj("provider", n, p, "")

(* The providers each kind of default provider creates, in order.          *)
FallbacksOf(c, p) ==
    IF ProviderKind(c, p) = "reliable" THEN OrElse(GetModelProp(c, p, "fallback_providers"), c.fallbacks)
    ELSE OrElse(c.fallbacks, GetModelProp(c, p, "fallback_providers"))
FirstOf(s, n) == IF Len(s) <= n THEN s ELSE SubSeq(s, 1, n)
ReliableNames(c, p) == FirstOf(ParseStringArray(FallbacksOf(c, p)), MaxReliable)
PlainNames(c, p) ==
    FirstOf(<<p>> \o SelectSeq(ParseStringArray(FallbacksOf(c, p)), LAMBDA q : q # p), MaxReliable)
(* A route is [hint, provider]; the routes end at the first without a hint,*)
(* and one without a provider is a provider that cannot be created.        *)
GetModelRouteProp(c, p, i, name) ==
    LET routes == OrElse(GetModelProp(c, p, "routes"), <<>>)
    IN  IF i \in DOMAIN routes THEN routes[i][name] ELSE Absent
RouteCount(c, p) ==
    CHOOSE n \in 0..MaxRoutes :
        /\ \A i \in 1..n : GetModelRouteProp(c, p, i, "hint") # Absent
        /\ n = MaxRoutes \/ GetModelRouteProp(c, p, n + 1, "hint") = Absent
RouterNames(c, p) ==
    LET tool == GetModelProp(c, p, "tool_provider")
    IN  <<GetModelProp(c, p, "default")>> \o (IF ConfigPropNonempty(tool) THEN <<tool>> ELSE <<>>)
        \o [i \in 1..RouteCount(c, p) |-> GetModelRouteProp(c, p, i, "provider")]

NamesToCreate(c, p) ==
    CASE ProviderKind(c, p) = "reliable" -> ReliableNames(c, p)
      [] ProviderKind(c, p) = "router" -> RouterNames(c, p)
      [] OTHER -> PlainNames(c, p)

(* sc_provider_reliable_new and sc_provider_router_new wrap the handles    *)
(* without owning them; a plain provider alone is not wrapped.             *)
WrapsHandles(c, p, handles) == ProviderKind(c, p) \in {"reliable", "router"} \/ Len(handles) # 1

(* There is room for one more handle; without it the provider just made is *)
(* destroyed again and the boot fails.                                     *)
BootAddProviderHandle(handles) == Len(handles) < MaxHandles

----------------------------------------------------------------------------
(* Tools: what the bootstrap says of each (the arguments of                *)
(* append_tool_if_exposed) and what the tool itself declares.              *)
Decl(risk, caps, side) == [risk |-> risk, caps |-> caps, side |-> side]
Reads(caps) == Decl("readonly", caps, "read")
Writes(caps) == Decl("side_effect", caps, "write")

Tool(name, decl) == [name |-> name, decl |-> decl]
DiagnosticTools ==
    <<Tool("tool_diagnostics", Reads({})), Tool("policy_explain", Reads({})), Tool("tool_registry_list", Reads({})),
      Tool("dependency_status", Reads({})), Tool("capability_matrix", Reads({})), Tool("resource_usage", Reads({})),
      Tool("approval_test", Writes({}))>>
FileTools ==
    LET fs == {"filesystem"}
    IN  <<Tool("file_read", Reads(fs)), Tool("file_write", Writes(fs)), Tool("file_list", Reads(fs)),
          Tool("content_search", Reads(fs)), Tool("glob_search", Reads(fs))>>
OutsideTools ==
    <<Tool("shell", Decl("shell", {"process"}, "process")), Tool("http", Decl("network", {"network"}, "network")),
      Tool("web_search", Decl("readonly", {"network"}, "network"))>>
BrowserTools(c) ==
    IF ~c.browser THEN <<>>
    ELSE <<Tool("browser", Decl("network", {"browser"}, "process")),
           Tool("browser_screenshot", Decl("network", {"browser"}, "process"))>>
MemoryTools ==
    LET mem == {"memory"}
    IN  <<Tool("pdf_extract", Reads({"filesystem"})), Tool("time", Reads({})), Tool("memory_store", Writes(mem)),
          Tool("memory_recall", Reads(mem)), Tool("memory_search", Reads(mem)), Tool("memory_pin", Writes(mem)),
          Tool("memory_forget", Writes(mem))>>
SopTools(c) ==
    IF ~(c.sopEnabled \/ ConfigPropNonempty(c.sopPath)) THEN <<>>
    ELSE <<Tool("sop_inspect", Reads({})), Tool("sop_advance", Reads({}))>>
CronTools(c) ==
    IF ~(c.cronEnabled \/ c.cronTools) THEN <<>>
    ELSE <<Tool("cron_list", Reads({})), Tool("cron_upsert", Writes({})), Tool("cron_remove", Writes({}))>>
BuiltinTools(c) ==
    DiagnosticTools \o FileTools \o OutsideTools \o BrowserTools(c) \o MemoryTools \o SopTools(c) \o CronTools(c)

FileToolSpec(name) == IF name = "file_write" THEN Writes({"filesystem"}) ELSE Reads({"filesystem"})
FileReadSpec == Reads({"filesystem"})
PdfExtractSpec == Reads({"filesystem"})
SearchToolSpec == Reads({"filesystem"})
DiagnosticSpec(name) == IF name = "approval_test" THEN Writes({}) ELSE Reads({})
AutonomyToolSpec(name) == IF name \in {"sop_inspect", "sop_advance", "cron_list"} THEN Reads({}) ELSE Writes({})
MemoryToolSpec(name) ==
    IF name \in {"memory_recall", "memory_search", "memory_export"} THEN Reads({"memory"})
    ELSE IF name = "memory_purge" THEN Decl("side_effect", {"memory"}, "destructive") ELSE Writes({"memory"})
HttpToolSpec(name) == Decl(IF name = "http" THEN "network" ELSE "readonly", {"network"}, "network")
ShellSpec == Decl("shell", {"process"}, "process")
BrowserSpec == Decl("network", {"browser"}, "process")
TimeSpec == Reads({})
McpServerSpec(transport) ==
    IF transport = "stdio" THEN Decl("side_effect", {"mcp", "process"}, "process")
    ELSE Decl("network", {"mcp", "network"}, "network")

(* What sc_tool_spec_of a built-in tool answers.                           *)
ToolSpec(name) ==
    CASE name \in {"file_write", "file_list"} -> FileToolSpec(name)
      [] name = "file_read" -> FileReadSpec
      [] name = "pdf_extract" -> PdfExtractSpec
      [] name \in {"content_search", "glob_search"} -> SearchToolSpec
      [] name \in {"memory_store", "memory_recall", "memory_search", "memory_pin", "memory_forget"} ->
            MemoryToolSpec(name)
      [] name \in {"sop_inspect", "sop_advance", "cron_list", "cron_upsert", "cron_remove"} ->
            AutonomyToolSpec(name)
      [] name \in {"http", "web_search"} -> HttpToolSpec(name)
      [] name \in {"browser", "browser_screenshot"} -> BrowserSpec
      [] name = "shell" -> ShellSpec
      [] name = "time" -> TimeSpec
      [] OTHER -> DiagnosticSpec(name)

ToolNameIsPublicRestricted(name) ==
    name \in {"shell", "file_write", "browser", "browser_screenshot", "memory_store", "memory_pin",
              "memory_forget", "memory_purge", "cron_upsert", "cron_remove"}

ToolFilterGroupsExclude(c, name, d) ==
    \/ StringArrayPropContains(c, "read_only") /\ d.risk # "readonly"
    \/ /\ StringArrayPropContains(c, "public_safe")
       /\ ToolNameIsPublicRestricted(name) \/ d.risk # "readonly" \/ d.side \in {"write", "destructive"}
    \/ StringArrayPropContains(c, "no_network") /\ d.caps \intersect {"network", "browser"} # {}
    \/ StringArrayPropContains(c, "no_mcp") /\ "mcp" \in d.caps

ToolObject(n, name, from) == Obj("tool", n, name, from)
SpecOf(tool) == IF tool.from = "builtin" THEN ToolSpec(tool.name) ELSE McpServerSpec(tool.from)
(* A built-in tool the filter leaves is constructed, if there is room.     *)
AppendToolIfExposed(tools, t) == Append(tools, ToolObject(Len(tools) + 1, t.name, "builtin"))

(* An MCP server is filtered as a whole, by what the bootstrap says of it. *)
McpExcluded(c, s) ==
    ToolFilterGroupsExclude(c, s.name,
        IF s.transport = "stdio" THEN Decl("side_effect", {"mcp"}, "process")
        ELSE Decl("network", {"mcp"}, "network"))
(* `count' tools of one server.                                            *)
AddMcpTools(tools, s, count) == tools \o [i \in 1..count |-> ToolObject(Len(tools) + i, s.name, s.transport)]

----------------------------------------------------------------------------
(* Taking down.  boot_owned_clear, then the configuration and the secrets  *)
(* of the function that booted.                                            *)
AsSeq(x) == IF x = {} THEN <<>> ELSE <<CHOOSE y \in x : TRUE>>
Handles(o) == {o.handles[i] : i \in DOMAIN o.handles}
SingleHandle(o) == Len(o.handles) = 1 /\ o.provider = {o.handles[1]}

(* Mutant: the provider is destroyed also as the only handle.              *)
ClearOfEveryProvider(o) ==
    AsSeq(o.delivery) \o AsSeq(o.observer) \o AsSeq(o.gateway) \o AsSeq(o.heartbeat) \o AsSeq(o.cron)
    \o AsSeq(o.orchestrator) \o o.channels \o AsSeq(o.agent) \o o.tools \o AsSeq(o.memory) \o AsSeq(o.tts)
    \o AsSeq(o.transcriber) \o AsSeq(o.provider) \o o.handles \o AsSeq(o.estop) \o AsSeq(o.policy)

(* boot_owned_clear.                                                       *)
BootOwnedClear(o) ==
    AsSeq(o.delivery) \o AsSeq(o.observer) \o AsSeq(o.gateway) \o AsSeq(o.heartbeat) \o AsSeq(o.cron)
    \o AsSeq(o.orchestrator) \o o.channels \o AsSeq(o.agent) \o o.tools \o AsSeq(o.memory) \o AsSeq(o.tts)
    \o AsSeq(o.transcriber) \o (IF SingleHandle(o) THEN <<>> ELSE AsSeq(o.provider)) \o o.handles
    \o AsSeq(o.estop) \o AsSeq(o.policy)

IfMade(x) == IF x \in live THEN <<x>> ELSE <<>>
ClearAfter(kind, o) ==
    BootOwnedClear(o) \o (IF kind = "daemon" THEN IfMade(ConfigObject) \o IfMade(SecretStore)
                          ELSE IfMade(SecretStore) \o IfMade(ConfigObject))

----------------------------------------------------------------------------
(* The steps of sc_runtime_boot; a session (boot_prepare_agent) ends with  *)
(* the agent.                                                              *)
CommonSteps == <<"config", "secrets", "workspace", "policy", "estop", "identity", "provider", "memory", "cron",
                 "tools", "model", "agent">>
SessionSteps == CommonSteps
DaemonSteps == CommonSteps \o <<"channels", "transcriber", "tts", "orchestrator", "gateway", "delivery",
                                "heartbeat", "run">>
Steps == IF boot.kind = "daemon" THEN DaemonSteps ELSE SessionSteps
AtStep(step) == boot.phase = "booting" /\ boot.at <= Len(Steps) /\ Steps[boot.at] = step

(* The end of a step: on with the next, or everything is taken down.       *)
Ends(ok, o, made) ==
    /\ owned' = o /\ live' = live \union made
    /\ IF ok THEN boot' = [boot EXCEPT !.at = @ + 1, !.i = 0] /\ UNCHANGED todo
       ELSE boot' = [boot EXCEPT !.phase = "clearing"] /\ todo' = ClearAfter(boot.kind, o)
    /\ UNCHANGED <<cfg, twice, turns>>
(* The next round of a step's loop.                                        *)
Continues(o, made) ==
    /\ owned' = o /\ live' = live \union made /\ boot' = [boot EXCEPT !.i = @ + 1]
    /\ UNCHANGED <<cfg, twice, todo, turns>>
(* A step that creates nothing of its own.                                 *)
Checks(ok) == Ends(ok, owned, {})
(* One that creates the member m.                                          *)
Creates(ok, m) ==
    LET x == One(m) IN IF ok THEN Ends(TRUE, [owned EXCEPT ![m] = {x}], {x}) ELSE Ends(FALSE, owned, {})

(* A file is read whole or not at all.                                     *)
ReadFile(outcome) == outcome = "whole"
LoadConfig ==
    /\ AtStep("config")
    /\ \E outcome \in {"whole", "not opened", "short", "not closed"}, valid \in BOOLEAN :
          LET ok == ReadFile(outcome) /\ valid IN Ends(ok, owned, IF ok THEN {ConfigObject} ELSE {})

(* A store that cannot be created ends the boot, a build without one       *)
(* (file_unsupported) goes on; attaching a store that was created succeeds.*)
AttachSecretStore ==
    /\ AtStep("secrets")
    /\ \/ cfg.storeAttached /\ \E ok \in BOOLEAN : Ends(ok, owned, IF ok THEN {SecretStore} ELSE {})
       \/ ~cfg.storeAttached /\ Checks(TRUE)

(* The workspace and its directories; one that is there already is fine.   *)
EnsureDir(outcome) == outcome \in {"made", "exists"}
(* An emergency-stop file is written where there is none.                  *)
InitWorkspaceState(dirs, file) == (\A d \in dirs : EnsureDir(d)) /\ file \in {"there", "written"}
PrepareWorkspace ==
    /\ AtStep("workspace")
    /\ \E root \in {"made", "exists", "failed"}, dirs \in SUBSET {"made", "exists", "failed"} \ {{}},
          file \in {"there", "written", "not written", "not opened"} :
             Checks(EnsureDir(root) /\ InitWorkspaceState(dirs, file))

CreatePolicy ==
    /\ AtStep("policy")
    /\ \E loaded \in BOOLEAN, root \in BOOLEAN :
          Ends(loaded /\ root, [owned EXCEPT !.policy = {One("policy")}], {One("policy")})
LoadEstop ==
    /\ AtStep("estop")
    /\ \E ok \in BOOLEAN : Ends(ok, [owned EXCEPT !.estop = {One("estop")}], {One("estop")})
(* A workspace file that cannot be read is left out.                       *)
BuildIdentity == AtStep("identity") /\ \E built \in BOOLEAN : Checks(built)

(* The named providers are created one by one; what each is given to       *)
(* authenticate with is kept beside it.                                    *)
CreateNamedProvider ==
    /\ AtStep("provider")
    /\ LET names == NamesToCreate(cfg, ResolveDefaultProvider(cfg))
           p == names[boot.i + 1]
           h == NamedProvider(p, Len(owned.handles) + 1)
       IN  /\ boot.i < Len(names)
           /\ \/ Checks(FALSE)
              \/ /\ NamedProviderPossible(cfg, p) /\ BootAddProviderHandle(owned.handles)
                 /\ Continues([owned EXCEPT !.handles = Append(@, h),
                                            !.credentials = Append(@, CredentialOf(cfg, p))], {h})

(* A reliable provider needs one; several, or a router, are wrapped.       *)
CreateProviderFromConfig ==
    /\ AtStep("provider")
    /\ LET p == ResolveDefaultProvider(cfg)
       IN  /\ boot.i >= Len(NamesToCreate(cfg, p))
           /\ \/ /\ ~WrapsHandles(cfg, p, owned.handles)
                 /\ Ends(TRUE, [owned EXCEPT !.provider = {owned.handles[1]}], {})
              \/ /\ WrapsHandles(cfg, p, owned.handles)
                 /\ \E wrapped \in BOOLEAN : Creates(wrapped /\ owned.handles # <<>>, "provider")

(* Anything but "sqlite" is the memory that keeps nothing.                 *)
CreateMemoryFromConfig ==
    AtStep("memory") /\ \E opened \in BOOLEAN : Creates(cfg.memory # "sqlite" \/ opened, "memory")
(* The stores are there before the file is read; the configuration's own   *)
(* job needs a schedule and a prompt.                                      *)
CreateCron ==
    /\ AtStep("cron")
    /\ \E loaded \in BOOLEAN, put \in BOOLEAN :
          Ends(loaded /\ (cfg.cronEnabled => put /\ cfg.cronSchedule # Absent /\ cfg.cronPrompt # Absent),
               [owned EXCEPT !.cron = {One("cron")}], {One("cron")})

(* create_tools: the built-in tools one by one, then the MCP servers.  In  *)
(* a build without the hardware feature, hardware may not be enabled.      *)
KeepsTools(tools) ==
    Continues([owned EXCEPT !.tools = tools], {tools[i] : i \in (Len(owned.tools) + 1)..Len(tools)})
CreateBuiltinTool ==
    /\ AtStep("tools")
    /\ LET t == BuiltinTools(cfg)[boot.i + 1]
           excluded == ToolFilterGroupsExclude(cfg, t.name, t.decl)
       IN  /\ boot.i < Len(BuiltinTools(cfg))
           /\ \/ cfg.hardware /\ Checks(FALSE)
              \/ ~cfg.hardware /\ excluded /\ KeepsTools(owned.tools)
              \/ /\ ~cfg.hardware /\ ~excluded
                 /\ \/ Checks(FALSE)
                    \/ Len(owned.tools) < MaxTools /\ KeepsTools(AppendToolIfExposed(owned.tools, t))

(* A server's tools are all taken or none; one whose tools were not        *)
(* discovered, or are loaded later, is one descriptor.  The room is asked  *)
(* for before the filter.                                                  *)
CreateMcpServerTools ==
    /\ AtStep("tools")
    /\ LET j == boot.i + 1 - Len(BuiltinTools(cfg))
           s == cfg.mcp[j]
           room == MaxTools - Len(owned.tools)
       IN  /\ j \in DOMAIN cfg.mcp
           /\ \/ ~s.enabled /\ KeepsTools(owned.tools)
              \/ s.enabled /\ room <= 0 /\ Checks(FALSE)
              \/ s.enabled /\ room > 0 /\ McpExcluded(cfg, s) /\ KeepsTools(owned.tools)
              \/ /\ s.enabled /\ room > 0 /\ ~McpExcluded(cfg, s)
                 /\ \/ ~s.deferred /\ s.tools > room /\ Checks(FALSE)
                    \/ ~s.deferred /\ s.tools <= room /\ KeepsTools(AddMcpTools(owned.tools, s, s.tools))
                    \/ Checks(FALSE)
                    \/ KeepsTools(AddMcpTools(owned.tools, s, 1))

ToolsCreated ==
    AtStep("tools") /\ boot.i >= Len(BuiltinTools(cfg)) + Len(cfg.mcp) /\ Checks(TRUE)

ResolveModel == AtStep("model") /\ Checks(ResolveDefaultModel(cfg) # Absent)
CreateAgent == AtStep("agent") /\ \E ok \in BOOLEAN : Creates(ok, "agent")

----------------------------------------------------------------------------
(* The parts only a daemon has.                                            *)
ChannelOrder == <<"telegram", "webhook", "rabbitmq", "mail">>
(* The token of the environment, of the configuration, of the store.       *)
TelegramToken(c) ==
    IF c.telegram.env # "" THEN c.telegram.env
    ELSE IF ConfigPropNonempty(c.telegram.token) THEN c.telegram.token
    ELSE OrElse(TrySecretStoreProp(c, <<"telegram", "bot_token">>), "")
CreateTelegramFromConfig(c) == TelegramToken(c) # ""
CreateWebhookFromConfig(c) == OrElse(c.webhookPath, "/webhook/smolclaw") # ""
CreateRabbitmqFromConfig(c) == ConfigPropNonempty(c.rabbitmq.url) /\ ConfigPropNonempty(c.rabbitmq.queue)
CreateMailFromConfig(c) == ConfigPropNonempty(c.mailInbox)
ChannelPossible(c, name) ==
    CASE name = "telegram" -> CreateTelegramFromConfig(c) [] name = "webhook" -> CreateWebhookFromConfig(c)
      [] name = "rabbitmq" -> CreateRabbitmqFromConfig(c) [] OTHER -> CreateMailFromConfig(c)
CreateNextChannel ==
    /\ AtStep("channels") /\ boot.i < Len(ChannelOrder)
    /\ LET name == ChannelOrder[boot.i + 1]
           x == Obj("channel", Len(owned.channels) + 1, name, "")
       IN  \/ name \notin cfg.channels /\ Continues(owned, {})
           \/ name \in cfg.channels /\ Checks(FALSE)
           \/ /\ name \in cfg.channels /\ ChannelPossible(cfg, name)
              /\ Continues([owned EXCEPT !.channels = Append(@, x)], {x})
ChannelsCreated == AtStep("channels") /\ boot.i >= Len(ChannelOrder) /\ Checks(TRUE)

(* An engine that is off is skipped; only one backend of each is known.    *)
CreateTranscriber ==
    /\ AtStep("transcriber")
    /\ \/ cfg.asr = "off" /\ Checks(TRUE)
       \/ /\ cfg.asr # "off"
          /\ \E ok \in BOOLEAN : Creates(ok /\ OrElse(cfg.asr, "whisper_cpp") = "whisper_cpp", "transcriber")
CreateTts ==
    /\ AtStep("tts")
    /\ \/ cfg.tts = "off" /\ Checks(TRUE)
       \/ cfg.tts # "off" /\ \E ok \in BOOLEAN : Creates(ok /\ OrElse(cfg.tts, "piper") = "piper", "tts")

(* The rules of one channel: never both lists, and a level that is known.  *)
ParseAutonomyLevel(value) == value \in {"read_only", "off", "supervised", "full", "autonomous"}
BuildChannelCommonConfig(rules) ==
    /\ rules.allow = <<>> \/ rules.deny = <<>>
    /\ ConfigPropNonempty(rules.autonomy) => ParseAutonomyLevel(rules.autonomy)
BuildChannelCommonConfigs(c, channels) ==
    \A i \in DOMAIN channels :
        channels[i].name \in DOMAIN c.rules => BuildChannelCommonConfig(c.rules[channels[i].name])
(* Without a channel there is no orchestrator.                             *)
CreateOrchestrator ==
    /\ AtStep("orchestrator")
    /\ \/ owned.channels = <<>> /\ Checks(TRUE)
       \/ /\ owned.channels # <<>>
          /\ \E ok \in BOOLEAN :
                Creates(/\ ok /\ OrElse(cfg.sessions, "sqlite") \in {"sqlite", "jsonl"}
                        /\ BuildChannelCommonConfigs(cfg, owned.channels), "orchestrator")

(* The server is kept in `owned' before it is started and observed; the    *)
(* configuration has to give an address even where the options give one.   *)
CreateGateway ==
    /\ AtStep("gateway")
    /\ \/ ~cfg.gateway /\ Checks(TRUE)
       \/ cfg.gateway /\ Checks(FALSE)
       \/ /\ cfg.gateway /\ cfg.gatewayBind # Absent
          /\ \E started \in BOOLEAN, observed \in BOOLEAN :
                LET g == One("gateway") w == One("observer")
                    made == {g} \union (IF started /\ observed /\ cfg.observe THEN {w} ELSE {})
                IN  Ends(started /\ (observed \/ ~cfg.observe),
                         [owned EXCEPT !.gateway = {g}, !.observer = made \ {g}], made)

CreateDelivery == AtStep("delivery") /\ \E ok \in BOOLEAN : Creates(ok, "delivery")
(* Replies go to the orchestrator, or to the standard output.              *)
DeliversToChannel(c, o) ==
    OrElse(c.delivery, IF o.orchestrator = {} THEN "stdout" ELSE "channel") = "channel" /\ o.orchestrator # {}
CreateHeartbeat ==
    /\ AtStep("heartbeat")
    /\ \/ ~cfg.heartbeat /\ Checks(TRUE)
       \/ /\ cfg.heartbeat
          /\ \E ok \in BOOLEAN : Ends(ok, [owned EXCEPT !.heartbeat = {One("heartbeat")}], {One("heartbeat")})

(* The loop runs to its end (RuntimeLoop); whatever it returns, the daemon *)
(* is taken down.                                                          *)
RunRuntimeLoop ==
    /\ AtStep("run")
    /\ boot' = [boot EXCEPT !.phase = "clearing"] /\ todo' = ClearAfter("daemon", owned)
    /\ UNCHANGED <<cfg, owned, live, twice, turns>>

----------------------------------------------------------------------------
(* The session, and the end.                                               *)
(* sc_boot_session_open keeps what is in `owned' and clears the rest.      *)
SessionOpened ==
    /\ boot.kind = "session" /\ boot.phase = "booting" /\ boot.at > Len(SessionSteps)
    /\ boot' = [boot EXCEPT !.phase = "session"]
    /\ live' = live \ {ConfigObject, SecretStore}
    /\ UNCHANGED <<cfg, owned, twice, todo, turns>>

(* sc_boot_session_process_ex: the turn gets the next id; a tool it calls  *)
(* reads the configuration the tool was made with.                         *)
SessionProcess ==
    /\ boot.phase = "session" /\ owned.agent # {} /\ Len(turns) < MaxTurns
    /\ turns' = Append(turns, [id |-> Len(turns) + 1, sees |-> ConfigObject \in live])
    /\ UNCHANGED <<boot, cfg, owned, live, twice, todo>>

SessionDestroy ==
    /\ boot.phase = "session"
    /\ boot' = [boot EXCEPT !.phase = "clearing"] /\ todo' = BootOwnedClear(owned)
    /\ UNCHANGED <<cfg, owned, live, twice, turns>>

DestroyNext ==
    /\ boot.phase = "clearing" /\ todo # <<>>
    /\ live' = live \ {Head(todo)} /\ todo' = Tail(todo)
    /\ twice' = IF Head(todo) \in live THEN twice ELSE twice \union {Head(todo)}
    /\ UNCHANGED <<boot, cfg, owned, turns>>
Cleared ==
    /\ boot.phase = "clearing" /\ todo = <<>>
    /\ boot' = [boot EXCEPT !.phase = "over"]
    /\ UNCHANGED <<cfg, owned, live, twice, todo, turns>>

Nothing ==
    [provider |-> {}, handles |-> <<>>, credentials |-> <<>>, memory |-> {}, cron |-> {}, tools |-> <<>>,
     agent |-> {}, channels |-> <<>>, transcriber |-> {}, tts |-> {}, orchestrator |-> {},
     gateway |-> {}, observer |-> {}, delivery |-> {}, heartbeat |-> {}, estop |-> {}, policy |-> {}]

BootInit ==
    /\ boot \in [kind : {"daemon", "session"}, at : {1}, i : {0}, phase : {"booting"}]
    /\ cfg \in Configs
    /\ owned = Nothing /\ live = {} /\ twice = {} /\ todo = <<>> /\ turns = <<>>

BootNext ==
    \/ LoadConfig \/ AttachSecretStore \/ PrepareWorkspace \/ CreatePolicy \/ LoadEstop \/ BuildIdentity
    \/ CreateNamedProvider \/ CreateProviderFromConfig \/ CreateMemoryFromConfig \/ CreateCron
    \/ CreateBuiltinTool \/ CreateMcpServerTools \/ ToolsCreated \/ ResolveModel \/ CreateAgent
    \/ CreateNextChannel \/ ChannelsCreated \/ CreateTranscriber \/ CreateTts \/ CreateOrchestrator \/ CreateGateway
    \/ CreateDelivery \/ CreateHeartbeat \/ RunRuntimeLoop
    \/ SessionOpened \/ SessionProcess \/ SessionDestroy \/ DestroyNext \/ Cleared

BootSpec == BootInit /\ [][BootNext]_bootVars

----------------------------------------------------------------------------
(* The objects whose functions call into others they did not create.  (The *)
(* cron tools also hold the cron stores, which go first: by then there is  *)
(* neither a gateway nor a loop to run a turn that would call a tool.)     *)
Uses(c, o, x) ==
    LET tools == {o.tools[i] : i \in DOMAIN o.tools}
        channels == {o.channels[i] : i \in DOMAIN o.channels}
    IN  CASE x.kind = "provider" /\ x.n = 0 -> Handles(o)
          [] x.kind = "tool" -> o.memory \union o.policy \union o.estop
          [] x.kind = "agent" -> o.provider \union o.memory \union tools \union o.policy \union o.estop
          [] x.kind = "orchestrator" -> o.agent \union channels \union o.transcriber \union o.tts
          [] x.kind = "gateway" -> o.agent \union {ConfigObject}
          [] x.kind = "observer" -> o.gateway
          [] x.kind = "delivery" -> IF DeliversToChannel(c, o) THEN o.orchestrator ELSE {}
          [] OTHER -> {}

(* However far a boot came, its end destroys every object it created, and  *)
(* none a second time (boot_owned_clear, and the provider that is both a   *)
(* handle and the provider).                                               *)
ClearedExactly == twice = {} /\ (boot.phase = "over" => live = {})

(* While an object exists, so does every object it calls into: the parts   *)
(* are created and destroyed in an order that keeps users inside the life  *)
(* of what they use.                                                       *)
UsersGoFirst == \A x \in live : Uses(cfg, owned, x) \subseteq live

(* The tools of a daemon keep a pointer to the configuration and read it   *)
(* when they are called (sc_tool_context.config): it outlives them.  Of a  *)
(* CLI session this does not hold, see TurnsSeeTheirConfig.                *)
ToolsHaveConfig == boot.kind = "daemon" => \A x \in live : x.kind = "tool" => ConfigObject \in live

(* What a tool may declare under the configuration's groups; no_network is *)
(* about the built-in tools, an MCP server is not judged by it.            *)
GroupsAllow(c, d) ==
    /\ StringArrayPropContains(c, "read_only") => d.risk = "readonly"
    /\ StringArrayPropContains(c, "public_safe") => d.risk = "readonly" /\ d.side \notin {"write", "destructive"}
    /\ StringArrayPropContains(c, "no_mcp") => "mcp" \notin d.caps
    /\ StringArrayPropContains(c, "no_network") /\ "mcp" \notin d.caps =>
          d.caps \intersect {"network", "browser"} = {}

(* No tool the agent is given falls, by its own declaration, under a group *)
(* the configuration filters out (tool_filter_groups_exclude).             *)
ExposedWithinGroups == \A i \in DOMAIN owned.tools : GroupsAllow(cfg, SpecOf(owned.tools[i]))

(* A boot that ends, at whatever step, has cleared exactly what it made,   *)
(* in an order its parts survive, and exposed no tool the groups exclude.  *)
BootSound == ClearedExactly /\ UsersGoFirst /\ ToolsHaveConfig /\ ExposedWithinGroups

(* A turn works with the configuration the session was opened with:        *)
(* "3. Load config, active policy, memory context, and tool registry       *)
(* snapshot." (docs/rules/RUNTIME_RULES.md:60).  The tools keep a pointer  *)
(* to the configuration sc_boot_session_open cleared.                      *)
TurnsSeeTheirConfig == \A i \in DOMAIN turns : turns[i].sees
=============================================================================
