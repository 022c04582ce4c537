------------------------------ MODULE Plugins ------------------------------
(* The plugin host: loading of native modules, WebAssembly modules and     *)
(* Python scripts, what their initialisation registers, the objects made   *)
(* from those registrations, and unloading (plugins/plugin.c,              *)
(* plugins/plugin_python.c).  The host runs on one thread; a load is a     *)
(* sequence of steps because the plugin's own code runs inside it.         *)
EXTENDS Integers, Sequences, FiniteSets, SequencesExt

CONSTANTS
    Artifacts,      \* the files that may be loaded, with the manifest of each
    HostOptions,
    BuiltIn,        \* <<kind, name>> of what the host's own registries hold
    Abi,            \* SC_ABI_VERSION_MAJOR
    MaxPlugins,     \* how many loads the instance sees
    MaxObjects,     \* how many objects may be alive at once
    MaxRegistrations

ASSUME PluginAssumption == MaxPlugins \in Nat /\ MaxObjects \in Nat /\ MaxRegistrations \in Nat

VARIABLES
    plugins,    \* every load so far: the plugin of load i is plugins[i]
    entries,    \* host->provider_entries, tool_entries, ...
    observers,  \* the adapters in the host's observer list
    objects,    \* the adapters handed out and not yet destroyed
    runtime,    \* wasm_runtime_ref_count and python_runtime_refs
    hostUp,
    call        \* the tool call of a guest that is running, and how the last one ended

pluginVars == <<plugins, entries, observers, objects, runtime, hostUp, call>>

NoCall == [running |-> FALSE, tool |-> "", owner |-> 0, set |-> FALSE, success |-> FALSE,
           code |-> "ok", status |-> "none"]
Kinds == {"provider", "channel", "tool", "memory", "peripheral"}
NewestPlugin == Len(plugins)
Loading == NewestPlugin > 0 /\ plugins[NewestPlugin].state = "loading"
Alive(p) == plugins[p].state \in {"loading", "loaded"}

PluginInit ==
    /\ plugins = <<>> /\ entries = {} /\ observers = {} /\ objects = {}
    /\ runtime = [wasm |-> 0, python |-> 0]
    /\ hostUp = TRUE
    /\ call = NoCall

----------------------------------------------------------------------------
(* The manifest.  In the JSON text "" is a missing string and -1 a missing *)
(* number.                                                                 *)
CapabilityFromName(name) ==
    IF name \in {"provider", "channel", "tool", "memory", "wasm", "observer", "peripheral", "python"}
    THEN {name} ELSE {}

PermissionFromName(name) ==
    IF name \in {"filesystem", "network", "shell", "hardware", "memory", "config", "secrets",
                 "provider", "channel", "tool", "observer", "peripheral"}
    THEN {name} ELSE {}

ParseStringFlags(found) == [ok |-> {} \notin found, flags |-> UNION found]

CopyJsonString(text, required) == required => text # ""
ParseU32Field(number, required) == IF number = -1 THEN ~required ELSE number \in 0..65535

ManifestParse(json) ==
    LET caps == ParseStringFlags({CapabilityFromName(n) : n \in json.capabilities})
        perms == ParseStringFlags({PermissionFromName(n) : n \in json.permissions})
        ok == /\ CopyJsonString(json.name, TRUE) /\ CopyJsonString(json.version, TRUE)
              /\ ParseU32Field(json.major, TRUE) /\ ParseU32Field(json.minor, FALSE)
              /\ caps.ok /\ perms.ok
              /\ CopyJsonString(json.artifact, TRUE) /\ CopyJsonString(json.signature, FALSE)
    IN  [st |-> IF ok THEN "ok" ELSE "parse", name |-> json.name, version |-> json.version,
         major |-> json.major, caps |-> caps.flags, perms |-> perms.flags, artifact |-> json.artifact]

ManifestCopy(manifest) == manifest

----------------------------------------------------------------------------
(* The checks before any of the plugin's code runs.                        *)
PathHasExtension(file, ext) == file.ext = ext

PathExtensionAllowed(file) ==
    \E e \in (IF HostOptions.extensions = {} THEN {".so", ".dylib", ".wasm", ".py"}
              ELSE HostOptions.extensions) : PathHasExtension(file, e)

(* Links are resolved first; a root that cannot be resolved is skipped.    *)
ValidatePluginPath(file) ==
    CASE ~PathExtensionAllowed(file)                       -> "extension_denied"
      [] PathExtensionAllowed(file) /\ ~file.exists         -> "path_not_found"
      [] PathExtensionAllowed(file) /\ file.exists /\ ~file.regular -> "not_regular_file"
      [] OTHER -> IF HostOptions.roots # {} /\ file.root \notin HostOptions.roots
                  THEN "path_denied" ELSE "ok"

PluginNameLoaded(name) == \E p \in DOMAIN plugins : plugins[p].state = "loaded" /\ plugins[p].m.name = name

DescriptorValid(d) == d.whole /\ d.major = Abi /\ d.name # "" /\ d.version # "" /\ d.init

(* A descriptor too short to have the fields asks for nothing.             *)
DescriptorFieldAvailable(d) == d.long
DescriptorRequestedCapabilities(d) == IF DescriptorFieldAvailable(d) THEN d.caps ELSE {}
DescriptorRequestedPermissions(d) == IF DescriptorFieldAvailable(d) THEN d.perms ELSE {}

ValidateDescriptorAndManifest(d, m) ==
    /\ DescriptorValid(d)
    /\ DescriptorFieldAvailable(d) => d.fits      \* minimum_host_descriptor_size
    /\ m.major = Abi /\ m.major = d.major
    /\ m.name = d.name /\ m.version = d.version
    /\ ~PluginNameLoaded(m.name)
    /\ DescriptorRequestedCapabilities(d) \in {{}, m.caps}
    /\ DescriptorRequestedPermissions(d) \in {{}, m.perms}
    /\ m.perms \subseteq HostOptions.allowed

(* A guest offers tools and nothing else.                                  *)
GuestValidateManifest(m, language) ==
    /\ language \in m.caps /\ m.caps \subseteq {language, "tool"} /\ "tool" \in m.caps
    /\ m.major = Abi /\ m.name # "" /\ m.version # ""
    /\ "tool" \in m.perms /\ m.perms \subseteq HostOptions.allowed
    /\ ~PluginNameLoaded(m.name)

WasmValidateManifest(m) == GuestValidateManifest(m, "wasm")
ScriptValidateManifest(m) == GuestValidateManifest(m, "python")

(* By capability or by extension, so that a disabled runtime is refused    *)
(* before any module is opened.                                            *)
LoaderOf(m, file) ==
    CASE "wasm" \in m.caps \/ PathHasExtension(file, ".wasm") -> "wasm"
      [] ~("wasm" \in m.caps \/ PathHasExtension(file, ".wasm"))
         /\ ("python" \in m.caps \/ PathHasExtension(file, ".py")) -> "python"
      [] OTHER -> "native"

LoadPathGate(m, file) ==
    IF ValidatePluginPath(file) # "ok" THEN ValidatePluginPath(file)
    ELSE IF ~(m.perms \subseteq HostOptions.allowed) THEN "permission_denied"
    ELSE IF LoaderOf(m, file) = "wasm" /\ ~HostOptions.wasm THEN "wasm_disabled"
    ELSE IF LoaderOf(m, file) = "python" /\ ~HostOptions.python THEN "python_disabled" ELSE "ok"

----------------------------------------------------------------------------
(* The shared interpreters are started by the first guest and stopped      *)
(* after the last.                                                         *)
RuntimeAcquire(lang) == [runtime EXCEPT ![lang] = @ + 1]
RuntimeRelease(lang) == [runtime EXCEPT ![lang] = IF @ = 0 THEN 0 ELSE @ - 1]

Fresh(m, kind, file) ==
    [m |-> ManifestCopy(m), kind |-> kind, file |-> file, state |-> "loading", refs |-> 0,
     tools |-> {}, calls |-> 0]

WasmReadModule(file) == file.size > 0 /\ file.size <= 16
PythonReadScript(file) == file.size > 0 /\ file.size <= 1

(* The module is there, has its exports and the guest's version.           *)
WasmModuleUsable(file) == WasmReadModule(file) /\ file.valid /\ file.exports /\ file.abi = 1
PythonModuleUsable(file) == PythonReadScript(file) /\ file.valid /\ file.exports

(* Everything sc_plugin_load_path decides before it calls the plugin.      *)
LoadAccepted(a) ==
    LET m == ManifestParse(a.json)
        loader == LoaderOf(m, a.file)
    IN  /\ m.st = "ok" /\ LoadPathGate(m, a.file) = "ok"
        /\ CASE loader = "native" -> /\ a.file.valid /\ a.file.exports
                                     /\ ValidateDescriptorAndManifest(a.file.descriptor, m)
             [] loader = "wasm"   -> WasmValidateManifest(m) /\ WasmModuleUsable(a.file)
             [] OTHER             -> ScriptValidateManifest(m) /\ PythonModuleUsable(a.file)

LoadBegin(a) ==
    LET m == ManifestParse(a.json)
        loader == LoaderOf(m, a.file)
    IN  /\ hostUp /\ ~Loading /\ ~call.running /\ NewestPlugin < MaxPlugins
        /\ LoadAccepted(a)
        /\ plugins' = Append(plugins, Fresh(m, loader, a.file))
        /\ runtime' = IF loader = "native" THEN runtime ELSE RuntimeAcquire(loader)
        /\ UNCHANGED <<entries, observers, objects, hostUp, call>>

(* A load refused on the way leaves nothing: an interpreter it had taken   *)
(* is let go again.                                                        *)
LoadRefused(a) ==
    /\ hostUp /\ ~Loading /\ ~call.running /\ NewestPlugin < MaxPlugins
    /\ ~LoadAccepted(a)
    /\ UNCHANGED pluginVars

----------------------------------------------------------------------------
(* What the plugin's init may call.                                        *)
RegisterPermissionCheck(p, what) == what \in plugins[p].m.perms /\ what \in plugins[p].m.caps

FindEntry(kind, name) == {e \in entries : e.kind = kind /\ e.name = name}

Registered(kind, name) == <<kind, name>> \in BuiltIn \/ FindEntry(kind, name) # {}
ProviderRegistered(name) == Registered("provider", name)
ChannelRegistered(name) == Registered("channel", name)
ToolRegistered(name) == Registered("tool", name)
MemoryRegistered(name) == Registered("memory", name)
PeripheralRegistered(name) == Registered("peripheral", name)

RegisterProviderApi(p, name) == RegisterPermissionCheck(p, "provider") /\ ~ProviderRegistered(name)
RegisterChannelApi(p, name) == RegisterPermissionCheck(p, "channel") /\ ~ChannelRegistered(name)
RegisterToolApi(p, name) == RegisterPermissionCheck(p, "tool") /\ ~ToolRegistered(name)
RegisterMemoryApi(p, name) ==
    HostOptions.memory /\ RegisterPermissionCheck(p, "memory") /\ ~MemoryRegistered(name)
RegisterPeripheralApi(p, name) == RegisterPermissionCheck(p, "peripheral") /\ ~PeripheralRegistered(name)

RegisterAccepted(p, kind, name) ==
    CASE kind = "provider" -> RegisterProviderApi(p, name)
      [] kind = "channel" -> RegisterChannelApi(p, name)
      [] kind = "tool" -> RegisterToolApi(p, name)
      [] kind = "memory" -> RegisterMemoryApi(p, name)
      [] OTHER -> RegisterPeripheralApi(p, name)

Calling(p) == Loading /\ p = NewestPlugin /\ plugins[p].calls < MaxRegistrations
Called(p) == [plugins EXCEPT ![p].calls = @ + 1]

(* make_host_api: a native plugin registers directly in the host.          *)
NativeRegisters(p, kind, name) ==
    /\ Calling(p) /\ plugins[p].kind = "native"
    /\ plugins' = Called(p)
    /\ entries' = IF RegisterAccepted(p, kind, name)
                  THEN entries \union {[kind |-> kind, name |-> name, plugin |-> p]} ELSE entries
    /\ UNCHANGED <<observers, objects, runtime, hostUp, call>>

(* An observer is made at once and counts as a reference to the plugin     *)
(* from then on.                                                           *)
RegisterObserverApi(p) ==
    /\ Calling(p) /\ plugins[p].kind = "native"
    /\ HostOptions.observers /\ RegisterPermissionCheck(p, "observer")
    /\ observers' = observers \union {[kind |-> "observer", name |-> "", plugin |-> p, n |-> plugins[p].calls]}
    /\ plugins' = [Called(p) EXCEPT ![p].refs = @ + 1]
    /\ UNCHANGED <<entries, objects, runtime, hostUp, call>>

(* A tool spec: an object with a name and a description, numbers that are  *)
(* not negative, and a name that is a valid contract name.                 *)
ParseU64Field(number) == number >= 0
WasmParseToolSpec(spec) == spec.object /\ spec.name # "" /\ ParseU64Field(spec.risk)
ScriptParseToolSpec(spec) == spec.object /\ spec.name # "" /\ ParseU64Field(spec.risk)

WasmRegisterToolEntry(name) == ~ToolRegistered(name)
ScriptRegisterToolEntry(name) == ~ToolRegistered(name)

(* wasm_host_register_tool: nothing stays of a registration that fails.    *)
WasmRegistersTool(p, spec) ==
    /\ Calling(p) /\ plugins[p].kind = "wasm"
    /\ IF spec.invoke /\ WasmParseToolSpec(spec) /\ WasmRegisterToolEntry(spec.name)
       THEN /\ plugins' = [Called(p) EXCEPT ![p].tools = @ \union {spec.name}]
            /\ entries' = entries \union {[kind |-> "tool", name |-> spec.name, plugin |-> p]}
       ELSE plugins' = Called(p) /\ UNCHANGED entries
    /\ UNCHANGED <<observers, objects, runtime, hostUp, call>>

RemovePluginRegistrations(p) == {e \in entries : e.plugin # p}

(* sc_plugin_script_register_tool: a spec that parses but cannot be        *)
(* registered takes every entry of the plugin out again.                   *)
ScriptRegisterTool(p, spec) ==
    \/ /\ ~ScriptParseToolSpec(spec)
       /\ plugins' = Called(p) /\ UNCHANGED entries
    \/ /\ ScriptParseToolSpec(spec) /\ ScriptRegisterToolEntry(spec.name)
       /\ plugins' = [Called(p) EXCEPT ![p].tools = @ \union {spec.name}]
       /\ entries' = entries \union {[kind |-> "tool", name |-> spec.name, plugin |-> p]}
    \/ /\ ScriptParseToolSpec(spec) /\ ~ScriptRegisterToolEntry(spec.name)
       /\ plugins' = Called(p) /\ entries' = RemovePluginRegistrations(p)

(* host.register_tool(spec, invoke) of a script: invoke must be callable.  *)
PythonRegistersTool(p, spec) ==
    /\ Calling(p) /\ plugins[p].kind = "python"
    /\ IF spec.invoke THEN ScriptRegisterTool(p, spec) ELSE plugins' = Called(p) /\ UNCHANGED entries
    /\ UNCHANGED <<observers, objects, runtime, hostUp, call>>

----------------------------------------------------------------------------
(* The init returns.  A plugin that is freed has "failed" to load or was   *)
(* "unloaded".                                                             *)
PluginWasmShutdown(p) == RuntimeRelease("wasm")
PythonDestroy(p) == RuntimeRelease("python")
PluginScriptShutdown(p) == PythonDestroy(p)

LoadedState(p) == [plugins EXCEPT ![p].state = "loaded"]
FreedState(p, why) == [plugins EXCEPT ![p].state = why, ![p].refs = 0]

(* Nothing looks for the observers of a plugin whose init fails.           *)
NativeInitReturns(p, ok) ==
    /\ Loading /\ p = NewestPlugin /\ plugins[p].kind = "native"
    /\ IF ok THEN plugins' = LoadedState(p) /\ UNCHANGED entries
       ELSE plugins' = FreedState(p, "failed") /\ entries' = RemovePluginRegistrations(p)
    /\ UNCHANGED <<observers, objects, runtime, hostUp, call>>

(* A guest must have registered a tool.  What it has registered in the     *)
(* host stays there when its init traps.                                   *)
WasmInitReturns(p, ok) ==
    /\ Loading /\ p = NewestPlugin /\ plugins[p].kind = "wasm"
    /\ IF ok /\ plugins[p].tools # {} THEN plugins' = LoadedState(p) /\ UNCHANGED runtime
       ELSE plugins' = FreedState(p, "failed") /\ runtime' = PluginWasmShutdown(p)
    /\ UNCHANGED <<entries, observers, objects, hostUp, call>>

(* sc_plugin_script_load_finish or sc_plugin_script_load_abort.            *)
ScriptLoadFinish(p) == plugins' = LoadedState(p) /\ UNCHANGED <<entries, runtime>>
ScriptLoadAbort(p) ==
    /\ plugins' = FreedState(p, "failed")
    /\ entries' = RemovePluginRegistrations(p)
    /\ runtime' = PluginScriptShutdown(p)

PythonInitReturns(p, ok) ==
    /\ Loading /\ p = NewestPlugin /\ plugins[p].kind = "python"
    /\ IF ok /\ plugins[p].tools # {} THEN ScriptLoadFinish(p) ELSE ScriptLoadAbort(p)
    /\ UNCHANGED <<observers, objects, hostUp, call>>

----------------------------------------------------------------------------
(* Objects made from a registration hold a reference to their plugin.      *)
PluginAcquire(p) == [plugins EXCEPT ![p].refs = @ + 1]
PluginRelease(p) == [plugins EXCEPT ![p].refs = IF @ = 0 THEN 0 ELSE @ - 1]

(* An entry is looked up by its name and its factory called, then the     *)
(* reference is taken.  The entry of a guest that failed to load leads to  *)
(* the freed plugin, whose interpreter state was cleared before: the       *)
(* entry's own factory is called, and makes nothing.                       *)
MakeObject(kind, name) ==
    /\ hostUp /\ ~Loading /\ ~call.running /\ Cardinality(objects) < MaxObjects
    /\ \E e \in FindEntry(kind, name) :
          \/ /\ Alive(e.plugin)
             /\ plugins' = PluginAcquire(e.plugin)
             /\ objects' = objects \union
                  {[kind |-> kind, name |-> name, plugin |-> e.plugin,
                    n |-> CHOOSE n \in 1..MaxObjects : \A o \in objects : o.n # n]}
          \/ ~Alive(e.plugin) /\ UNCHANGED <<plugins, objects>>
    /\ UNCHANGED <<entries, observers, runtime, hostUp, call>>

CreateProvider(name) == MakeObject("provider", name)
CreateChannel(name) == MakeObject("channel", name)
CreateMemory(name) == MakeObject("memory", name)
CreatePeripheral(name) == MakeObject("peripheral", name)

(* A guest's tool must also be in the guest's own list.                    *)
WasmCreateToolForVtab(p, name) == plugins[p].kind = "wasm" => name \in plugins[p].tools
ScriptCreateToolForVtab(p, name) == plugins[p].kind = "python" => name \in plugins[p].tools
CreateTool(name) ==
    /\ \A e \in FindEntry("tool", name) :
          WasmCreateToolForVtab(e.plugin, name) /\ ScriptCreateToolForVtab(e.plugin, name)
    /\ MakeObject("tool", name)

(* The adapters check the permission again on every call and forward it;   *)
(* the tool adapter asks the security policy instead.                      *)
AdapterPermits(p, what) == IF RegisterPermissionCheck(p, what) THEN "forwarded" ELSE "permission_denied"
ProviderAdapter(o) == AdapterPermits(o.plugin, "provider")
ChannelAdapter(o) == AdapterPermits(o.plugin, "channel")
MemoryAdapter(o) == AdapterPermits(o.plugin, "memory")
PeripheralAdapter(o) == AdapterPermits(o.plugin, "peripheral")
ObserverAdapterEmit(o) == AdapterPermits(o.plugin, "observer")
ToolAdapterInvoke(verdict) ==
    CASE verdict = "denied" -> "denied" [] verdict = "approval" -> "approval_required" [] OTHER -> "runs"

AdapterOutcome(o) ==
    CASE o.kind = "provider" -> ProviderAdapter(o)
      [] o.kind = "channel" -> ChannelAdapter(o)
      [] o.kind = "memory" -> MemoryAdapter(o)
      [] o.kind = "peripheral" -> PeripheralAdapter(o)
      [] OTHER -> ObserverAdapterEmit(o)

(* An observer whose plugin was freed reads its permissions there: they    *)
(* may be anything.                                                        *)
AdapterCalled(o) ==
    /\ (o \in objects /\ o.kind # "tool") \/ o \in observers
    /\ ~call.running /\ ~Loading
    /\ \E status \in IF Alive(o.plugin) THEN {AdapterOutcome(o)} ELSE {"forwarded", "permission_denied"} :
          call' = [NoCall EXCEPT !.status = status]
    /\ UNCHANGED <<plugins, entries, observers, objects, runtime, hostUp>>

AdapterDestroy(o) ==
    /\ o \in objects /\ ~call.running /\ ~Loading
    /\ objects' = objects \ {o}
    /\ plugins' = PluginRelease(o.plugin)
    /\ UNCHANGED <<entries, observers, runtime, hostUp, call>>

(* The owner of the observer list lets an observer go.  What is released   *)
(* in a plugin that was freed is no count of anybody's.                    *)
ObserverAdapterDestroy(o) ==
    /\ o \in observers /\ ~Loading /\ ~call.running
    /\ observers' = observers \ {o}
    /\ plugins' = PluginRelease(o.plugin)
    /\ UNCHANGED <<entries, objects, runtime, hostUp, call>>

----------------------------------------------------------------------------
(* Mutant: what an earlier call reported is left in the host's record.     *)
CallKeepsOld(o) == [call EXCEPT !.running = TRUE, !.tool = o.name, !.owner = o.plugin, !.status = "none"]

(* A call of a guest's tool.  The adapter asks the security policy; the    *)
(* guest then runs to its end, reporting as it likes.                      *)
CallState(o) == [NoCall EXCEPT !.running = TRUE, !.tool = o.name, !.owner = o.plugin]

GuestInvoked(o, verdict) ==
    /\ o \in objects /\ o.kind = "tool" /\ plugins[o.plugin].kind # "native"
    /\ ~call.running /\ ~Loading
    /\ call' = IF ToolAdapterInvoke(verdict) = "runs" THEN CallState(o)
               ELSE [NoCall EXCEPT !.status = ToolAdapterInvoke(verdict)]
    /\ UNCHANGED <<plugins, entries, observers, objects, runtime, hostUp>>

(* wasm_host_set_tool_result and wasm_host_set_status: a text outside of   *)
(* the guest's memory, or a code that is none, makes the call an invalid   *)
(* one.                                                                    *)
WasmHostSetToolResult(success, readable) ==
    /\ call.running /\ plugins[call.owner].kind = "wasm"
    /\ call' = IF readable THEN [call EXCEPT !.set = TRUE, !.success = success]
               ELSE [call EXCEPT !.code = "invalid"]
    /\ UNCHANGED <<plugins, entries, observers, objects, runtime, hostUp>>

WasmHostSetStatus(code) ==
    /\ call.running /\ plugins[call.owner].kind = "wasm"
    /\ call' = [call EXCEPT !.code = IF code \in {"ok", "denied"} THEN code ELSE "invalid"]
    /\ UNCHANGED <<plugins, entries, observers, objects, runtime, hostUp>>

Result(success) == IF success THEN "success" ELSE "failure"
WasmToolInvoke(trap) ==
    IF trap THEN "invoke_failed"
    ELSE IF call.code # "ok" THEN call.code
    ELSE IF ~call.set THEN "result_missing" ELSE Result(call.success)

(* A string is a success; an object says what it is and must have an       *)
(* output; anything else is no result.                                     *)
PythonResultFromObject(r) ==
    CASE r.type = "string" -> "success"
      [] r.type = "dict" /\ r.output -> Result(r.success)
      [] OTHER -> "invalid"

PythonInvoke(raises, r) == IF raises THEN "invoke_failed" ELSE PythonResultFromObject(r)

WasmToolReturns(trap) ==
    /\ call.running /\ plugins[call.owner].kind = "wasm"
    /\ call' = [call EXCEPT !.running = FALSE, !.status = WasmToolInvoke(trap)]
    /\ UNCHANGED <<plugins, entries, observers, objects, runtime, hostUp>>

PythonToolReturns(raises, r) ==
    /\ call.running /\ plugins[call.owner].kind = "python"
    /\ call' = [call EXCEPT !.running = FALSE, !.status = PythonInvoke(raises, r)]
    /\ UNCHANGED <<plugins, entries, observers, objects, runtime, hostUp>>

PythonResults ==
    {[type |-> "string", output |-> FALSE, success |-> TRUE], [type |-> "list", output |-> FALSE, success |-> TRUE]}
    \union {[type |-> "dict", output |-> o, success |-> s] : o, s \in BOOLEAN}

----------------------------------------------------------------------------
(* Mutant: a plugin in use is unloaded.                                    *)
UnloadAnyway(p) == TRUE

(* A plugin in use is not unloaded.                                        *)
UnloadGuard(p) == plugins[p].refs = 0

RuntimeAfter(p) ==
    CASE plugins[p].kind = "wasm" -> PluginWasmShutdown(p)
      [] plugins[p].kind = "python" -> PluginScriptShutdown(p)
      [] OTHER -> runtime

PluginUnload(p) ==
    /\ hostUp /\ ~Loading /\ ~call.running /\ p \in DOMAIN plugins /\ plugins[p].state = "loaded"
    /\ UnloadGuard(p)
    /\ plugins' = FreedState(p, "unloaded")
    /\ entries' = RemovePluginRegistrations(p)
    /\ runtime' = RuntimeAfter(p)
    /\ UNCHANGED <<observers, objects, hostUp, call>>

(* The host is destroyed when nothing it loaded is in use; otherwise the   *)
(* call changes nothing.                                                   *)
HostDestroy ==
    /\ hostUp /\ ~Loading /\ ~call.running
    /\ \A p \in DOMAIN plugins : plugins[p].state = "loaded" => plugins[p].refs = 0
    /\ hostUp' = FALSE
    /\ plugins' = [p \in DOMAIN plugins |->
                     IF plugins[p].state = "loaded" THEN FreedState(p, "unloaded")[p] ELSE plugins[p]]
    /\ entries' = {}
    /\ runtime' = [l \in {"wasm", "python"} |->
                     runtime[l] - Cardinality({p \in DOMAIN plugins : plugins[p].state = "loaded"
                                                                      /\ plugins[p].kind = l})]
    /\ UNCHANGED <<observers, objects, call>>

PluginNext ==
    \/ \E a \in Artifacts : LoadBegin(a) \/ LoadRefused(a)
    \/ \E p \in DOMAIN plugins :
          \/ \E kind \in Kinds, name \in {"x", "y"} : NativeRegisters(p, kind, name)
          \/ RegisterObserverApi(p)
          \/ \E spec \in plugins[p].file.specs : WasmRegistersTool(p, spec) \/ PythonRegistersTool(p, spec)
          \/ \E ok \in BOOLEAN :
                NativeInitReturns(p, ok) \/ WasmInitReturns(p, ok) \/ PythonInitReturns(p, ok)
          \/ PluginUnload(p)
    \/ \E name \in {"x", "y"} :
          \/ CreateProvider(name) \/ CreateChannel(name) \/ CreateTool(name)
          \/ CreateMemory(name) \/ CreatePeripheral(name)
    \/ \E o \in objects \union observers : AdapterCalled(o)
    \/ \E o \in objects : AdapterDestroy(o)
    \/ \E o \in observers : ObserverAdapterDestroy(o)
    \/ \E o \in objects, v \in {"allowed", "denied", "approval"} : GuestInvoked(o, v)
    \/ \E s, r \in BOOLEAN : WasmHostSetToolResult(s, r)
    \/ \E code \in {"ok", "denied", "unknown"} : WasmHostSetStatus(code)
    \/ \E trap \in BOOLEAN : WasmToolReturns(trap)
    \/ \E raises \in BOOLEAN, r \in PythonResults : PythonToolReturns(raises, r)
    \/ HostDestroy

PluginSpec == PluginInit /\ [][PluginNext]_pluginVars

----------------------------------------------------------------------------
(* What is in use keeps its plugin: each object has a loaded one, no       *)
(* observer's plugin is unloaded under it, and the plugin counts exactly   *)
(* its objects and observers, so that it can be unloaded as soon as, and   *)
(* not before, the last of them is gone (sc_plugin_acquire,                *)
(* sc_plugin_release, sc_plugin_unload).                                   *)
InUseStaysLoaded ==
    /\ \A o \in objects : plugins[o.plugin].state = "loaded"
    /\ \A o \in observers : plugins[o.plugin].state # "unloaded"
    /\ \A p \in DOMAIN plugins :
          Alive(p) => plugins[p].refs = Cardinality({o \in objects : o.plugin = p})
                                        + Cardinality({o \in observers : o.plugin = p})

(* The interpreters run exactly for the guests that are loaded or loading, *)
(* through every failed load and every unload (wasm_runtime_acquire,       *)
(* python_runtime_acquire and their releases).                             *)
RuntimesBalanced ==
    \A l \in {"wasm", "python"} :
        runtime[l] = Cardinality({p \in DOMAIN plugins : Alive(p) /\ plugins[p].kind = l})

(* A plugin that was unloaded, and a native or script plugin that failed   *)
(* to load, is in no registration list (remove_plugin_registrations).      *)
NoEntryOfTheGone ==
    \A e \in entries : \/ Alive(e.plugin)
                       \/ plugins[e.plugin].kind = "wasm" /\ plugins[e.plugin].state = "failed"

(* Loading, failing to load, using and unloading plugins, in any order,    *)
(* leave the host's counts and lists exact.                                *)
HostSound == InUseStaysLoaded /\ RuntimesBalanced /\ NoEntryOfTheGone

(* "Loading errors must not leave partially registered plugin entries"     *)
(* (PLUGIN_RULES.md): a plugin whose load failed is in no registration     *)
(* list and no observer of it is left.  The native loader forgets the      *)
(* observers, which then read and write the freed plugin                   *)
(* (observer_adapter_emit, observer_adapter_destroy), and the WebAssembly  *)
(* loader forgets the tools.                                               *)
FailedLoadLeavesNothing ==
    \A x \in entries \union observers : plugins[x.plugin].state # "failed"

(* What the caller of a guest's tool is told is what the guest said in     *)
(* this very call: a result is never one left by an earlier call, by a     *)
(* guest that trapped or by one that reported an error (wasm_tool_invoke,  *)
(* python_result_from_object).                                             *)
GuestOutcomeTrue ==
    [][/\ ~call.running /\ call'.running => ~call'.set /\ call'.code = "ok"
       /\ call.running /\ ~call'.running /\ plugins[call.owner].kind = "wasm" =>
            (call'.status \in {"success", "failure"} => call.set /\ call.code = "ok")]_call

=============================================================================
