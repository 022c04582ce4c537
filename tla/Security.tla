------------------------------ MODULE Security ------------------------------
(***************************************************************************)
(* The decisions of src/security: what policy a configuration yields, and  *)
(* what that policy answers to a tool request, a path, a URL, a command,   *)
(* a sandbox plan or a message.  They are functions of their arguments;    *)
(* the steps that call them, and the state they guard, are in Tools.       *)
(*                                                                         *)
(* A status is "ok", "denied", "invalid", "io", "parse", "unsupported" or  *)
(* "cancelled" (sc_status codes).  A configuration is a function from the  *)
(* property names it sets to their values.  A canonical path is the        *)
(* sequence of what stands between its slashes after the leading one:      *)
(* "/w/f" is <<"w", "f">>, "/" is << >>, and "//f" is <<"", "f">>.  A path *)
(* as it is given has parts that start from the root, the home directory   *)
(* ("~") or the current one.                                               *)
(***************************************************************************)
EXTENDS Naturals, Sequences, FiniteSets, SequencesExt

Status == {"ok", "denied", "invalid", "io", "parse", "unsupported",
           "cancelled", "timeout", "none"}

(***************************************************************************)
(* The policy of a configuration (policy.c).                               *)
(***************************************************************************)
Given(config, prop, default) ==
    IF prop \in DOMAIN config THEN config[prop] ELSE default

AutonomyFromStr(value) ==
    CASE value \in {"read_only", "off"}   -> "read_only"
      [] value \in {"full", "autonomous"} -> "full"
      [] OTHER                            -> "supervised"

BackendNames == {"landlock", "bubblewrap", "firejail", "docker", "podman",
                 "container", "seatbelt", "appcontainer", "noop"}

SandboxBackendFromStr(value) ==
    CASE value \in {"auto", ""}         -> "auto"
      [] value = "oci"                  -> "container"
      [] value \in BackendNames         -> value
      [] OTHER                          -> "unknown"

SandboxNetworkFromStr(value) ==
    IF value \in {"allowed-domains", "none"} THEN value ELSE "full"

DefaultFallbackOrder == <<"landlock", "bubblewrap", "firejail", "docker", "podman">>

(* A list in the configuration adds its non-empty strings; a value that is *)
(* no list refuses the whole configuration.                                *)
LoadListProp(config, prop) ==
    {v \in Range(Given(config, prop, <<>>)) : v # ""}

(* The order given must be a non-empty list that names neither auto nor    *)
(* noop; {} stands for a refused configuration.                            *)
LoadSandboxFallbackOrder(config) ==
    LET given == Given(config, "security.sandbox.fallback_order", <<"default">>)
        named == [i \in DOMAIN given |-> SandboxBackendFromStr(given[i])]
    IN  IF given = <<"default">> THEN {DefaultFallbackOrder}
        ELSE IF given = <<>> \/ \E i \in DOMAIN given :
                    given[i] = "" \/ named[i] \in {"auto", "noop"}
             THEN {}
             ELSE {named}

FromRoot(parts) == [from |-> "root", parts |-> parts]

DefaultPolicyLists ==
    [deniedPaths   |-> {FromRoot(<<"etc">>), FromRoot(<<"sys">>), FromRoot(<<"boot">>),
                        [from |-> "home", parts |-> <<".ssh">>],
                        [from |-> "home", parts |-> <<".aws">>]},
     forbidden     |-> {"shutdown", "reboot", "mkfs"},
     env           |-> {"PATH", "HOME", "USER", "LANG"},
     otpActions    |-> {"shell", "browser", "browser_screenshot", "file_write"}]

PolicyInitDefaults ==
    [autonomy |-> "supervised", privateNetwork |-> "block",
     backend |-> "auto", network |-> "full", shellEnabled |-> FALSE,
     workspaceOnly |-> TRUE, credentials |-> FALSE, receipts |-> TRUE,
     root |-> FromRoot(<<"fail">>), allowedTools |-> {}, autoApproved |-> {},
     alwaysAsk |-> {}, deniedTools |-> {}, allowedPaths |-> {},
     allowedDomains |-> {}, deniedDomains |-> {}, allowedCommands |-> {},
     otpEnabled |-> FALSE, otpCode |-> "", sandboxDomains |-> {},
     devices |-> {}, runtime |-> "", dockerPath |-> "", podmanPath |-> "",
     noopFallback |-> FALSE, memory |-> 0,
     maxProcs |-> 0, order |-> DefaultFallbackOrder,
     deniedPaths |-> DefaultPolicyLists.deniedPaths,
     forbidden |-> DefaultPolicyLists.forbidden,
     env |-> DefaultPolicyLists.env,
     otpActions |-> DefaultPolicyLists.otpActions]

(* autonomy.level wins over the runtime's own level; a list adds to the    *)
(* default list, it never replaces it.                                     *)
PolicyFromConfig(config) ==
    LET level == Given(config, "autonomy.level", "")
    IN  {[PolicyInitDefaults EXCEPT
            !.autonomy = AutonomyFromStr(IF level # "" THEN level
                             ELSE Given(config, "runtime.autonomy_level", "")),
            !.root = Given(config, "runtime.workspace_path", @),
            !.workspaceOnly = Given(config, "autonomy.workspace_only", @),
            !.shellEnabled = Given(config, "autonomy.shell_enabled", @),
            !.autoApproved = LoadListProp(config, "autonomy.auto_approve")
                        \cup LoadListProp(config, "autonomy.auto_approve.tools"),
            !.alwaysAsk = LoadListProp(config, "autonomy.always_ask")
                     \cup LoadListProp(config, "autonomy.always_ask.tools"),
            !.deniedTools = LoadListProp(config, "autonomy.never_allow")
                       \cup LoadListProp(config, "autonomy.never_allow.tools"),
            !.deniedPaths = @ \cup Range(Given(config, "autonomy.forbidden_paths", <<>>)),
            !.allowedCommands = LoadListProp(config, "autonomy.allowed_commands"),
            !.forbidden = @ \cup LoadListProp(config, "autonomy.forbidden_commands"),
            !.env = @ \cup LoadListProp(config, "autonomy.shell_env_passthrough"),
            !.otpEnabled = Given(config, "security.otp.enabled", @),
            !.otpCode = Given(config, "security.otp.code", @),
            !.otpActions = @ \cup LoadListProp(config, "security.otp.actions"),
            !.sandboxDomains = LoadListProp(config, "security.sandbox.allowed_domains"),
            !.devices = LoadListProp(config, "security.sandbox.allow_devices"),
            !.backend = SandboxBackendFromStr(Given(config, "security.sandbox.backend", "auto")),
            !.runtime = Given(config, "security.sandbox.container_runtime", @),
            !.dockerPath = Given(config, "security.sandbox.docker_path", @),
            !.podmanPath = Given(config, "security.sandbox.podman_path", @),
            !.order = order,
            !.noopFallback = Given(config, "security.sandbox.allow_noop_fallback", @),
            !.network = SandboxNetworkFromStr(Given(config, "security.sandbox.network", "full")),
            !.memory = Given(config, "security.sandbox.memory_limit_mb", @),
            !.maxProcs = Given(config, "security.sandbox.max_subprocesses", @),
            !.receipts = Given(config, "agent.tool_receipts.enabled", @)]
          : order \in LoadSandboxFallbackOrder(config)}

(***************************************************************************)
(* Commands.  words are the names glued together by ; or | in the first    *)
(* blank-delimited word: the policy takes them as one name, the shell tool *)
(* cuts at the first ; or |.                                               *)
(***************************************************************************)
CommandBasename(command) == command.words
ShellCommandBasename(command) == SubSeq(command.words, 1, 1)

ValidateShellPolicy(policy, command) ==
    IF command.danger THEN "denied"
    ELSE IF CommandBasename(command) = <<>> THEN "invalid"
    ELSE IF CommandBasename(command) \in {<<c>> : c \in policy.forbidden} THEN "denied"
    ELSE IF /\ policy.allowedCommands # {}
            /\ CommandBasename(command) \notin {<<c>> : c \in policy.allowedCommands}
         THEN "denied" ELSE "ok"

(***************************************************************************)
(* URLs.  A host is a name given by its labels, or an IPv4 address.        *)
(***************************************************************************)
HostMatchesDomain(url, domain) ==
    /\ url.kind = "name"
    /\ IsSuffix(domain, url.host)

DomainListMatches(domains, url) == \E d \in domains : HostMatchesDomain(url, d)

HostIsPrivate(url) ==
    LET a == url.host[1]
        b == url.host[2]
    IN  \/ url.kind = "name" /\ url.host = <<"localhost">>
        \/ /\ url.kind = "ipv4"
           /\ \/ a \in {0, 10, 127} \/ a >= 224
              \/ a = 100 /\ b \in 64..127
              \/ a = 172 /\ b \in 16..31
              \/ <<a, b>> \in {<<192, 168>>, <<169, 254>>, <<198, 18>>, <<198, 19>>}

ValidateUrl(policy, url) ==
    IF url.scheme = "malformed" THEN "parse"
    ELSE IF \/ url.scheme \notin {"http", "https"}
            \/ ~policy.credentials /\ url.credentials
            \/ DomainListMatches(policy.deniedDomains, url)
            \/ /\ policy.allowedDomains # {}
               /\ ~DomainListMatches(policy.allowedDomains, url)
            \/ policy.privateNetwork = "block" /\ HostIsPrivate(url)
         THEN "denied" ELSE "ok"

ValidateRedirect(policy, original, target) ==
    IF ValidateUrl(policy, original) # "ok" THEN ValidateUrl(policy, original)
    ELSE ValidateUrl(policy, target)

ValidateSandboxNetwork(policy, url) ==
    CASE policy.network = "full" -> "ok"
      [] policy.network = "none" -> "denied"
      [] OTHER -> IF url.scheme = "malformed" THEN "parse"
                  ELSE IF DomainListMatches(policy.sandboxDomains, url) THEN "ok"
                  ELSE "denied"

(***************************************************************************)
(* Paths.  A world is what the operating system knows: the real path of    *)
(* every path that exists, the current and the home directory.  Note that  *)
(* the name built for writing has an empty part when its parent is the     *)
(* root, and that only that name expands "~".                              *)
(***************************************************************************)
NoPath == <<"fail">>
NoArg == FromRoot(NoPath)

PathHasPrefix(path, prefix) ==
    IF prefix = <<>> THEN path = <<>> \/ (path # <<>> /\ path[1] = "")
    ELSE IsPrefix(prefix, path)

MakeAbsolute(world, path) ==
    CASE path.from = "root" -> path.parts
      [] path.from = "home" -> IF world.home = NoPath THEN NoPath
                               ELSE world.home \o path.parts
      [] OTHER              -> world.cwd \o path.parts

RealPath(world, parts) ==
    IF parts \in DOMAIN world.real THEN world.real[parts] ELSE NoPath

CanonicalizeExisting(world, path) ==
    CASE path.from = "root" -> RealPath(world, path.parts)
      [] path.from = "home" -> RealPath(world, world.cwd \o <<"~">> \o path.parts)
      [] OTHER              -> RealPath(world, world.cwd \o path.parts)

ParentAndLeaf(parts) == <<Front(parts), Last(parts)>>

CanonicalizeForWrite(world, path) ==
    LET absolute == MakeAbsolute(world, path)
    IN  IF absolute \in {<<>>, NoPath} THEN NoPath
        ELSE LET pl     == ParentAndLeaf(absolute)
                 parent == RealPath(world, pl[1])
             IN  IF parent = NoPath \/ pl[2] \in {"", ".", ".."} THEN NoPath
                 ELSE IF parent = <<>> THEN <<"", pl[2]>>
                 ELSE Append(parent, pl[2])

(* [st, path]: the real path of an argument and whether it is inside.      *)
WorkspaceResolve(policy, world, path, mustExist) ==
    LET root == CanonicalizeExisting(world, policy.root)
        res  == IF mustExist THEN CanonicalizeExisting(world, path)
                ELSE CanonicalizeForWrite(world, path)
    IN  IF (policy.workspaceOnly \/ policy.root # NoArg) /\ root = NoPath THEN [st |-> "io", path |-> NoPath]
        ELSE IF res = NoPath THEN [st |-> "io", path |-> NoPath]
        ELSE IF policy.workspaceOnly /\ ~PathHasPrefix(res, root)
        THEN [st |-> "denied", path |-> NoPath]
        ELSE [st |-> "ok", path |-> res]

(* A listed path that cannot be made canonical fails the request.          *)
ValidatePath(policy, world, path, mustExist) ==
    LET r == WorkspaceResolve(policy, world, path, mustExist)
        canon(S) == {CanonicalizeForWrite(world, p) : p \in S}
    IN  IF r.st # "ok" THEN r.st
        ELSE IF \E d \in canon(policy.deniedPaths) : d # NoPath /\ PathHasPrefix(r.path, d)
        THEN "denied"
        ELSE IF NoPath \in canon(policy.deniedPaths \cup policy.allowedPaths) THEN "io"
        ELSE IF /\ policy.allowedPaths # {}
                /\ ~\E a \in canon(policy.allowedPaths) : PathHasPrefix(r.path, a)
        THEN "denied"
        ELSE "ok"

(* Mutant: the check is left out.                                          *)
EstopUnchecked(estop) == "ok"

(***************************************************************************)
(* One request.                                                            *)
(***************************************************************************)
EstopCheck(estop) == IF estop THEN "denied" ELSE "ok"

ValidateTool(policy, tool) ==
    IF \/ tool \in policy.deniedTools
       \/ policy.allowedTools # {} /\ tool \notin policy.allowedTools
    THEN "denied" ELSE "ok"

ValidateDevicePolicy(policy, request) ==
    IF \/ policy.devices = {} \/ request.device = ""
       \/ policy.devices \cap {"*", request.device} # {}
    THEN "ok" ELSE "denied"

ValidateOtpPolicy(policy, request) ==
    IF \/ ~policy.otpEnabled \/ request.tool \notin policy.otpActions
       \/ policy.otpCode # "" /\ request.otp = policy.otpCode
    THEN "ok" ELSE "denied"

RiskAllowed(policy, request) ==
    /\ request.risk = "shell" => policy.shellEnabled
    /\ policy.autonomy = "read_only" => request.risk = "readonly"
    /\ policy.autonomy = "supervised" /\ request.risk \in {"destructive", "shell"}
         => request.tool \in policy.autoApproved

RequiresApproval(policy, risk) ==
    CASE policy.autonomy = "read_only"  -> risk # "readonly"
      [] policy.autonomy = "supervised" -> risk \notin {"readonly", "destructive", "shell"}
      [] OTHER -> FALSE

RequestRequiresApproval(policy, request) ==
    \/ request.tool \in policy.alwaysAsk
    \/ request.tool \notin policy.autoApproved /\ RequiresApproval(policy, request.risk)

NoUrl == [scheme |-> "", credentials |-> FALSE, kind |-> "name", host |-> <<>>]
NoCommand == [danger |-> FALSE, control |-> FALSE, words |-> <<"">>]

(* The checks of a request, in their order.                                *)
RequestChecks(policy, estop, world, request) ==
    << EstopCheck(estop),
       ValidateTool(policy, request.tool),
       IF RiskAllowed(policy, request) THEN "ok" ELSE "denied",
       IF request.shell = NoCommand THEN "ok"
       ELSE ValidateShellPolicy(policy, request.shell),
       IF request.path = NoArg THEN "ok"
       ELSE ValidatePath(policy, world, request.path, request.mustExist),
       IF request.url = NoUrl THEN "ok" ELSE ValidateUrl(policy, request.url),
       IF request.url = NoUrl THEN "ok" ELSE ValidateSandboxNetwork(policy, request.url),
       ValidateDevicePolicy(policy, request),
       ValidateOtpPolicy(policy, request) >>

(* The first check that does not pass is the answer.                       *)
FirstRefusal(answers) ==
    LET bad == {i \in DOMAIN answers : answers[i] # "ok"}
    IN  IF bad = {} THEN "ok" ELSE answers[CHOOSE i \in bad : \A j \in bad : i <= j]

ValidateRequest(policy, estop, world, request) ==
    LET st == FirstRefusal(RequestChecks(policy, estop, world, request))
    IN  [st |-> st, ask |-> st = "ok" /\ RequestRequiresApproval(policy, request)]

(***************************************************************************)
(* Sandboxes.  A plan says how the command is confined.                    *)
(***************************************************************************)
NoopCheck(policy, cwd) ==
    {[backend |-> "noop", netOff |-> FALSE, fsOnly |-> FALSE, env |-> {}]}

LandlockCheck(policy, cwd) ==
    {[backend |-> "landlock", netOff |-> FALSE, fsOnly |-> TRUE, env |-> {}]}

BubblewrapCheck(policy, cwd) ==
    {[backend |-> "bubblewrap", netOff |-> policy.network = "none",
      fsOnly |-> TRUE, env |-> {}]}

FirejailCheck(policy, cwd) ==
    {[backend |-> "firejail", netOff |-> policy.network = "none",
      fsOnly |-> cwd # NoPath, env |-> {}]}

(* A container needs a workspace to mount.                                 *)
ContainerCheck(policy, cwd, backend) ==
    IF cwd = NoPath THEN {}
    ELSE {[backend |-> backend, netOff |-> policy.network = "none",
           fsOnly |-> TRUE, env |-> policy.env]}

(* The plan of one named backend; {} when it is not available here.        *)
SelectBackend(policy, available, backend, cwd) ==
    IF backend # "noop" /\ backend \notin available THEN {}
    ELSE CASE backend = "noop"       -> NoopCheck(policy, cwd)
           [] backend = "landlock"   -> LandlockCheck(policy, cwd)
           [] backend = "bubblewrap" -> BubblewrapCheck(policy, cwd)
           [] backend = "firejail"   -> FirejailCheck(policy, cwd)
           [] backend \in {"docker", "podman"} -> ContainerCheck(policy, cwd, backend)
           [] OTHER -> {}

(* auto takes the first of the order that is available, and noop only when *)
(* the configuration allows the fallback.                                  *)
SelectProcessSandbox(policy, available, cwd) ==
    CASE policy.backend = "auto" ->
           LET usable == SelectSeq(policy.order, LAMBDA b : b \in available \ {"noop", "container"})
           IN  IF usable # <<>> THEN SelectBackend(policy, available, Head(usable), cwd)
               ELSE IF policy.noopFallback THEN NoopCheck(policy, cwd)
               ELSE {}
      [] policy.backend = "container" ->
           IF policy.runtime \notin available THEN {}
           ELSE ContainerCheck(policy, cwd, "container")
      [] policy.backend = "docker" /\ policy.dockerPath # "" ->
           IF policy.dockerPath \notin available THEN {}
           ELSE ContainerCheck(policy, cwd, "container")
      [] policy.backend = "podman" /\ policy.podmanPath # "" ->
           IF policy.podmanPath \notin available THEN {}
           ELSE ContainerCheck(policy, cwd, "container")
      [] OTHER -> SelectBackend(policy, available, policy.backend, cwd)

(* A command that may use the network needs a policy that leaves it open.  *)
ValidateProcessNetwork(policy, mayUseNetwork) ==
    IF mayUseNetwork /\ policy.network \in {"none", "allowed-domains"}
    THEN "denied" ELSE "ok"

(* The rights that confine a child under landlock, by kernel ABI.          *)
LandlockReadAccess == {"read_file", "read_dir"}
LandlockReadWriteAccess ==
    LandlockReadAccess \cup {"write_file", "remove", "make", "refer", "truncate"}
LandlockAccessForAbi(abi) ==
    IF abi = 0 THEN {}
    ELSE {"execute", "write_file", "read_file", "read_dir", "remove", "make"}
         \cup (IF abi >= 2 THEN {"refer"} ELSE {})
         \cup (IF abi >= 3 THEN {"truncate"} ELSE {})

(* The rules of a restricted child: the workspace for reading and writing, *)
(* the system directories for reading; only handled rights are restricted. *)
LandlockRestrictSelf(abi, cwd, system) ==
    LET handled == LandlockReadWriteAccess \cap LandlockAccessForAbi(abi)
    IN  IF handled = {} THEN {}
        ELSE {[handled |-> handled,
               rules |-> {[path |-> cwd, access |-> handled]}
                 \cup {[path |-> s, access |-> LandlockReadAccess \cap handled] : s \in system}]}

(* The environment a child gets: the passed names that are no secrets and  *)
(* are set, with PATH and LANG always there.                               *)
MakeEnvp(policy, set, secret) ==
    ((policy.env \ secret) \cap set) \cup {"PATH", "LANG"}

(***************************************************************************)
(* Messages and pairing.                                                   *)
(***************************************************************************)
ValidatePromptInjection(text) == IF text = "injection" THEN "denied" ELSE "ok"
(* A needle that begins the token of a receipt is no leak.                 *)
ValidateOutboundMessage(text) == IF text = "leak" THEN "denied" ELSE "ok"
ValidatePairing(required, paired) == IF required /\ ~paired THEN "denied" ELSE "ok"
=============================================================================
