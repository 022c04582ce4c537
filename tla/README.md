# A TLA+ verification project for smolclaw

smolclaw is an agent runtime in C23. Channels, a gateway, cron jobs and a heartbeat feed
messages to one agent; the agent asks a language-model provider, runs tools under a
security policy, hands its caller receipts of what the tools did and keeps a history per
session.
The program has one thread: all its concurrency is that of libuv callbacks (timers,
signals, completions of provider, tool and HTTP requests) and of functions that re-enter
the runtime from inside a callback. What is hard about it follows from that: state that is
read in one callback and used in a later one, operations of which one part fails, a
process that dies between two writes, and shutdown that races everything else.

Paths below are relative to the repository's root (`src/` holds the program, `docs/` its
documentation).

## 1. Inventory

| Component | State | Operations | Interacts with | What makes it correct |
|---|---|---|---|---|
| Turn queue `runtime/turn_queue.c` | vector of jobs, `in_flight`, a loop task | enqueue (with or without `cancel_previous`), schedule, task, async done, drain, destroy | public interface for embedders (`include/sc/runtime.h`): nothing under `src/` calls it yet; runs turns of the agent; its task is one of the loop | each result goes to its own job, once, in order; no job lost; a cancelled turn does not succeed |
| Runtime loop `runtime/loop.c` | task list, timers, handles, shutdown token, status | add, remove, timer start, cancel and destroy, run, request shutdown, shutdown phases, destroy | libuv; everything else is a task of it | no freed timer fires; nothing starts after a stop; errors are reported; a stop returns |
| Agent turn `runtime/agent.c` | session histories; per turn: caches, approvals, receipts, counters | blocking turn, asynchronous turn, tool round, approval, overflow retry, finalisation | provider, tools, memory, observer, approval callback of the channel | approvals and refusals hold; effects are on record; history agrees with the result |
| Channel orchestrator `channels/orchestrator.c` | inboxes, seen ids, histories, the JSONL file or the SQLite session tables, webhook nonces and rate window | listen, process, reply, draft, persist, reload, webhook ingress | poll task of `runtime/bootstrap.c`; agent | a message is admitted once, answered once, remembered if sent, restored after a restart |
| Bootstrap `runtime/bootstrap.c` | the assembled runtime | construct from config, poll task, daemon, CLI session, teardown | all | what was made is destroyed once, users first; filtered tools are not exposed; one channel's error does not stop the others |
| Telegram `channels/telegram.c` | update offset, drafts, rate window, approval number | listen, send, edit, ask for approval | orchestrator, HTTP client, media screening | no update is confirmed undecided or handed out twice; what was reported as sent stands |
| ACP `channels/acp.c` | JSON-RPC sessions | new, prompt, stop, evict | gateway, agent | the limit holds; each prompt has its updates |
| Ingress: webhooks, mail, transports `channels/orchestrator.c`, `channels/webhooks.c` | inboxes, nonces, rate windows, temporary files, named endpoints | ingest, listen, send, dispatch | orchestrator as the listener | a request is taken once; an attachment lives as long as its message |
| Gateway `gateway/gateway.c` | pairing code and token, sessions, windows, idempotency cache, event ring, connections | pair, authenticate, route, chat, stream, close | agent, ACP, observer | one pairing; an acknowledged mutation is not repeated; the ring has the newest events |
| Autonomy `autonomy/autonomy.c` | cron jobs, their state file, heartbeat, SOP runs | pass, run a job, edit from a tool, edit from the command line, approve | loop task, agent, tools, command-line processes | every due job of a pass runs; a once job runs once; finished commands are in the file |
| Security `security/` | policy, emergency-stop file, receipt chain and its store | check, plan a sandbox, trip and reset; record, save and load a chain | every tool call, boot, command line; no tool of the daemon is given a chain (`bootstrap.c:1885`), and its store is called by tests only | denied calls do not run; a stop that was read is obeyed |
| Providers `providers/` | retry counters, stream accumulators | generate, stream, fall back, route | HTTP client, process runner | requests are bounded; a final answer ends the call; a stream is read alike however it is cut |
| File and shell tools `tools/` | open directories, temporary files, child processes | check, walk, write, publish, spawn, poll, kill | agent, another process in the workspace | files stay inside and whole; no child is left |
| Remote tools `tools/mcp.c`, `http_tool*.c` | a server process per call, asynchronous operations | write, poll, kill, wait; start, complete, cancel | agent, HTTP client | one completion per call; no process left |
| Browser tools `tools/browser_tool.c` | sessions, websockets, listed elements | open, read, click, wait, close | a browser over DevTools | a call reads and clicks its own page |
| Plugins `plugins/` | loaded plugins, registrations, objects, interpreter references | load, register, create, call, unload | agent, registry | no call into an unloaded plugin; counts are exact; a guest's outcome is its own |
| Memory `memory/` | SQLite rows or a markdown file | store, recall, forget, redact, purge, hydrate, export | agent, memory tools | forgotten stays forgotten; the backends hold the same records |
| Config `config/` | layered values | load, override, save | bootstrap | an input of the other components |
| HTTP client `net/` | libcurl multi handle, sockets, timers | start, cancel, complete | providers, tools, channels | one completion per request, cancelled or not |
| Hardware, media, observability, i18n, app, JSON, core | mostly none across calls | | | conversions and sinks |

`PROJECT.json` lists every component with its status, and the hazards: the places where
something can go wrong that a test would hardly reach.

How a message travels: a channel's `listen` (in the loop's poll task) hands the
orchestrator one message; the orchestrator deduplicates and authorises it, runs a blocking
agent turn, sends the reply, and writes the histories. The cron task of the loop runs the
jobs that are due, each a blocking turn whose tools may edit the jobs. An embedder that
uses the turn queue enqueues a job; the queue's task starts an asynchronous turn with a
pointer to the job's turn record, and the completion answers the job at the head
(`docs/runtime-event-loop.md:124` describes gateway, channels and cron as entering this
queue; in this commit they call the agent directly). A stop request cancels the loop's
token, closes every timer and ends `uv_run`; the owner then runs the shutdown phases.

## 2. Modules

| Module | Role |
|---|---|
| `TurnQueue`, `TurnMailbox` | the queue of turns, its vector, its task, drain; what it promises, which it refines |
| `RuntimeLoop`, `RuntimeLoopModel` | the loop on libuv; its setups for TLC |
| `AgentTurn`, `AgentTurnModel` | the turn in both implementations; its setups |
| `Orchestrator`, `OrchestratorModel` | channels, replies and the session store with crashes |
| `Cron`, `CronModel` | cron jobs: daemon, tools, command lines and the state file |
| `Acp`, `Gateway`, `GatewayModel` | the ACP server as operators; the gateway that runs it, with its listener |
| `ProviderWire`, `HttpClient`, `Providers`, `ProvidersModel` | what providers write and read; how a transfer ends; a provider call through routing, retries and streams |
| `Security`, `Tools`, `ToolsModel` | the policy's decisions; file and shell tools, process runner, emergency stop |
| `TelegramWire`, `Telegram`, `TelegramModel` | texts, bodies and updates; the channel against the service |
| `Ingress`, `IngressModel` | webhooks, mail, transports, named endpoints |
| `Plugins`, `PluginsModel` | the plugin host |
| `Memory` | both memory backends under the same calls |
| `Boot`, `BootModel` | construction and teardown, the CLI session |
| `Browser`, `BrowserModel` | the browser tools against a browser |
| `RemoteTools`, `RemoteModel` | MCP, HTTP and search tools |
| `PartsModel`, `MachineModel`, `ServiceModel`, `AgentServicesModel` | components that share no state side by side, so that one run checks them: ingress, plugins, boot, browser and remote tools; cron, tools and gateway; turn queue and Telegram; providers and memory, with the instance of memory |
| `TurnQueueProofs` | theorems about the queue, and its refinement of `TurnMailbox` |
| `RuntimeLoopProofs` | theorems about `RuntimeLoop` and `Boot` |
| `AgentTurnProofs` | theorems about `AgentTurn` and `Cron` |
| `OrchestratorProofs`, `GatewayProofs` | theorems about `Orchestrator`, and about `Gateway` with `Acp` |
| `ToolsProofs` | theorems about `Tools` and `Memory` |
| `PluginsProofs` | theorems about `Plugins` and `Telegram` |
| `EdgeProofs` | theorems about `Ingress`, `RemoteTools`, `Browser` and `Providers` |

A definition whose comment begins "Mutant" is a deliberately wrong variant of a definition
that follows it. No specification uses them; each is known to violate the property
`PROJECT.json` names for it.

### TurnQueue

`jobs` is `queue->jobs`; a job is its id, its session/thread key, its window of consecutive
inputs (ids stand for texts), its limit and its cancel flag. `cap` and `buf` are the
capacity and the identity of the vector's block: a push into a full vector may move it
(`ReallocMoves`). `turn` is the pointer the agent holds during an asynchronous turn: the
job it was started for and the block it points into. `CancelReads` is what the turn reads
through that pointer: the flag if the block is current, either value if it was freed. `pc`
says which queue function is on the stack, so a done callback can enqueue, schedule or
request shutdown while the answered job is still at the head.

`Enqueue` is `sc_runtime_turn_queue_enqueue` with its trailing window build, trim and
cancellation; `EnqueueNoMemory` its failure. `Task`/`TaskNoMemory` are the loop task,
`TurnComplete` and `AsyncRemove` the two halves of the async completion around the done
callback, `Drain`, `DrainTurn`, `DrainRemove`, `DrainReturn` the blocking drain.
`TurnMailbox` is one line of waiting jobs that is answered at its front: a job leaves the
line when its result is handed out, which is before the vector drops it.

### RuntimeLoop

`list` is `loop->tasks`; `tstate` a task's libuv timer (armed, closing, freed), `handle`
and `linked` the opaque timer handle of `sc_runtime_timer_start` and the task's pointer to
it. `cur` is the callback on the stack; only a callback, or the owner outside the run,
calls the API. `stop` records in which part of an iteration `uv_stop` was called, because
an iteration polls for I/O and signals before it runs due timers (libuv 1.45 and later;
`OldLibuv` is the older order). libuv is external: a timer fires until `uv_close`, the
close callback comes later, `uv_stop` ends the run after the iteration.

`TimerFire`, `TaskError`, `TaskOk` are `runtime_loop_timer_cb` around the run function,
`Signal` is `runtime_loop_signal_cb`, `CloseCb` frees the task, `RunStops`, `DrainAgain`
and `RunReturns` are the end of `sc_runtime_loop_run`, `Shutdown` the ordered phases.

### AgentTurn

One turn in its two implementations (`setup.mode`). A step ends where other code runs:
the provider, a tool, the user who is asked for approval. In between, `CancelRequest` and
`DeadlinePasses` may happen. The per-loop caches are variables (`denials`, `grants`,
`successes`, `replays`, `failures`); `effects`, `okInLoop` and `approved` are history
variables that record what really happened. `Precheck` is the order of the tests before a
call; `ContextOverflow` is the single retry, which clears the caches; `Finalize` appends,
persists and reports. A tool call is a model value; arguments, prompts and texts are
abstracted.

### Orchestrator

One pass of the poll task listens on every channel in order. Processing a message is one
call in the code, but each send, file and database write in it can fail on its own
(`MaxFaults`) and the process can die between any two (`Crash`, `Restart`), so each is a
step: `Listen`, `Duplicate`/`Admit`, `SendDraft`, `BuildInput`, `AgentRuns`, `SendReply`,
`SendAttachment`, `SendSorry`, `AppendHistory`, `WriteJsonl`, `UpsertMeta`, `InsertRow`.
`opts.backend` is the session store that bootstrap configures: with `sqlite` the metadata
and the row are written and `Restart` reads the rows again, with `jsonl` a line is written
that nothing reads again, with `none` (persistence off, or no SQLite library) neither.
An error that may be `SC_ERR_TIMEOUT` does not end a single pass (`PollErrorOrTimeout`).
A name is the sequence of its parts between `_` (the empty name is one empty part), which
is all that `BuildKey`, `ValidKey` and `ParseKey` (the session key and its cut on reload)
look at. `Reload` reads the rows one by one and skips those whose key is refused; the query
sorts them by key and then by age, and a scope has the rows of one key, so the order between
keys does not matter.

### Cron

`jobs` and `cap` are the daemon's vector; a job carries a number of its own so that jobs
of one id can be told apart. `clock` counts instants, `Fine` to a minute; the wall clock
does not go back and two passes never read the same nanosecond. A schedule is its number
of fields and when it triggers; `Instants` is what `sc_cron_schedule_matches` accepts in a
build with nanocron and in one without. `Tick`, `Execute`, `JobSucceeds`, `JobFails`,
`ScanDone` are one pass of `run_cron_due_jobs`; the turn of a job is a state
(`stage = "turn"`) because `ToolUpsert` and `ToolRemove` can happen in it, and `Mark` writes
through the pointer the turn began with. Command lines (`CommandAdds`, `CommandRemoves`)
load, truncate, flush and close as separate steps, and may overlap and die.

### Gateway and Acp

A handler is an operator from the server record and a request to an outcome: the new
server, the response, the handlers that ran and the keys that were acknowledged.
`Request` runs one through the gates in their order (route, body limit, rate window,
authentication, key required, idempotency cache); a JSON-RPC call runs an inner request
through the same gates, an ACP line goes to `Acp`. What the environment decides inside a
handler (the turn's result, a full allocation, a rejected value) is a record chosen with
the request. `Connect`, `ReadCb`, `WriteDone`, `CloseDone` are the listener's libuv
callbacks; a connection that is closed twice is "broken" and ends the behaviour, as libuv
aborts.

### Providers, ProviderWire and HttpClient

`ProviderWire` has, for each kind of provider, options and defaults, the URL, credentials
and body of a request, the reading of a response and of a stream event, and the parsers
that cut a byte stream into events: a stream is a sequence of symbols (documents, line
ends, noise) that the network cuts anywhere. `Meaning` is the reference reading of a whole
stream, from which `StreamFaithful` is stated. `HttpClient` gives the status of a
transfer from what its callbacks recorded. `Providers` runs one call at a time through the
router or the reliable chain and the three nested retry loops, synchronous or on the loop.

### Security and Tools

`Security` holds pure decisions: the policy a configuration yields, paths, domains,
commands, sandbox backends and their plans. `Tools` steps a call: security check, walk to
the parent one directory at a time, temporary file, write, rename; or spawn, poll, read,
kill and reap. `RecordReceipt` is the end of every call and records nothing: the context
bootstrap gives the tools has no receipt chain, and without one `sc_tool_record_receipt`
returns ok. Directories are inodes and names can be replaced by links at any time (`Swap`),
so a check and the open after it are different steps. A temporary file that is there
already is removed by the write that meets it, and that write fails (`OpenTemp`); the
write, the rename and the link may each fail on their own, and take the temporary file
away. A pipe or a fork that cannot be had ends the call; a child that cannot be given a
group of its own is killed and reaped (`SpawnFails`). `Crash` ends the daemon between any
two steps; `EstopCommand` and `EstopWriteFile` are the operator's process.

### Telegram and TelegramWire

Every request to the service is a step with an outcome of its own, including "carried out
and the answer lost", and is repeated as `telegram_http_request` does. `api` is the
service: the updates it still holds, the messages of each chat. `fate` records how each
update was decided, `handed` the order in which the runtime got them, `acked` what was
reported as sent. After a draft or an edit that failed the fallback forgets the message it
would have edited (`telegram.c:476`, `:504`), so a failed fallback is followed by a new
message; a photo that is refused, or whose upload fails, is sent as a document. Texts are
sequences of bytes of four classes, so that splitting meets markup and characters of two
bytes.

### Memory, and the five parts of PartsModel

`Ingress`: `Ingest` is the whole of `sc_channel_webhook_ingest` including the stored
attachment and the nonce, with an allocation failing before the message is queued or after
it. In the second case the queued copy has lost its strings and its file (`hook.freed`),
and what is read from the queue afterwards is any value; `RouterIngest` is a named webhook;
`MailListen` one poll of the mailbox; `DoneWith` the orchestrator's release of a message.
`Plugins`: a load is a sequence of steps because the plugin's own code runs inside it and
registers; objects and observers hold references. A plugin that failed to load and one that
was unloaded are different states: the loaders leave behind the observers of the first,
which may still be called and destroyed. `Memory`: the same calls go to a markdown and a
SQLite memory; a write of the file may be torn, a commit may fail, a record may be refused
in the middle of a transaction, which is then rolled back; the agent's turns store under
numbered keys, at most three of them. A search by text is a substring without regard to
case in markdown (`Contained`) and a phrase of words of FTS5 in SQLite (`Phrased`): which
keys and contents a text finds is a parameter, so that one may find what the other does
not. The order FTS5 ranks by is left open. `memory_search` reads its `limit` as a string
only, so the tool always asks for the default number. `Boot`: one action per creation and
per round of its loops, each of which may fail; `DestroyNext` runs `boot_owned_clear`;
`SessionProcess` is a turn of a CLI session. `Browser`: each action is its sequence of
DevTools requests; answers, events and page moves come in between; a snapshot lists at most
`MaxListed` elements (50 in the code). The page a click searches has elements that were not
listed, and an id with a dot in it is written into the selector as it is, where it reads as
an id and a class. `RemoteTools`: the MCP client with the server process at the other end
of two pipes, tool discovery over stdio and over HTTP, and the asynchronous HTTP tools. A
call that needs an approval ends in the security check as cancelled (`tool_common.c:356`);
no receipt is recorded, as in `Tools`.

## 3. Runs

Seven runs check what holds. A name followed by a list in parentheses is an invariant that
is the conjunction of the named parts; each part has its own comment in the module.

**`service`** (`Service.cfg`, 593 thousand states): a behaviour is one of the turn queue or
one of the Telegram channel, the other stays in an initial state; fairness is asked of each
component in its own behaviours only.

Turn queue: callers of two sessions, with and
without `cancel_previous`, re-entrant callbacks, both outcomes of `realloc`, failing
allocations, drain, shutdown and destroy. `QueueSound` (`TypeOK`, `AnswersMatch`,
`AnswersInOrder`, `NoJobLost`, `InFlightExact`), `WindowSound`, `CancelReachesUnmoved` (a
cancelled turn never completes ok as long as the vector did not move under it),
`ImplementsMailbox` (refinement), `EventuallyAnswered`. Bounds: three jobs with a first
capacity of 1 make the vector grow twice, so a push can move the block under a running
turn, which needs five jobs at the code's capacity of 4; two limits and two keys give
every combination of window and match.

Telegram: six updates (text, filtered kind, button,
image, video too large, group without mention), five messages, three budgets that put the
weight on listening with a crash, on sending with two faults, and on both with a question.
`UpdatesTaken` (`ConfirmedWasHandled`, `HandedInOrder`), `SentStands`,
`EveryUpdateSettled`.

**`runtime_loop`** (`RuntimeLoop.cfg`, 1.3 million): a service with a repeating task that
may fail, a one-shot timer with a handle and a task that callbacks add; the same with hard
shutdown; and the once mode. `LoopSound` (`TypeOK`, `HandleSound`, `CleanupAfterStop`,
`NoWorkAfterGracefulSignal`), `ErrorReported`, `OnceRunsEach`, `NoRunAfterRequest`,
`StopReturns`. Bounds: four timer callbacks and two shutdown calls; three tasks are enough
for one to be closing, one armed and one freed at the same time.

**`agent_turn`** (`AgentTurn.cfg`, 2.2 million): blocking and asynchronous turns of three
kinds (the user can be asked; some tools filtered and some calls rejected; a guarded tool
and nobody to ask), with cancellation and deadline at any step. `TurnSound`
(`ApprovalRespected`, `RefusedNeverActs`, `EffectsDelivered`, `TraceMatchesResult`,
`ProviderCallsBounded`), `TurnReported` (`TypeOK`, `NoRepeatedSuccess`, `ReportedOnce`),
`DeclinedStaysDeclined`, `NoUnaskedToolAfterCancel`, `TurnEnds`. Bounds: two calls of one
tool with attachments and one of another tell exact cache hits from hits by tool; two
iterations and the retry give up to four rounds of two calls.

**`orchestrator`** (`Orchestrator.cfg`, 1.6 million): two channels, four messages of which
one is in a thread, one has no sender and one is refused, redelivery, one fault and one
crash anywhere, as a daemon with each session store and in once mode. `HistoryFaithful`
(`TypeOK`, `RememberedWasSent`, `StoresAgree`, `RestartRebuildsHistory`, `HistoryScoped`),
`OneAnswerPerAdmission`, `AdmittedOnceInWindow` (two admissions of an id are more than
`MaxSeen` apart; failures cost the window at most one place), `InboxesDrain`. Bounds: four
arrivals with a cache of two ids evict; a history of three trims.

**`machine`** (`Machine.cfg`, 1.85 million): a behaviour is one of cron, of the tools or of
the gateway; the other two stay in an initial state.

Cron: both builds, a file with a once job that has run, one
that has not and a shell job, or none, a once job of the config, one tool call and two
commands. `JobsKept` (`CronTypeOK`, `OnceJobs`, `FileHoldsAcked`), `PassRunsAllDue`. Each
states its limits: a tool call that moves the vector or removes a job during a turn ends
what `OnceJobs` promises, and overlapping or killed writers end what `FileHoldsAcked`
promises. Bounds: one id for tools and commands is enough to append, replace and remove
before the slot in use, at it and behind it; a first capacity of 1 makes the vector grow
during a turn; the instants 0 to 3 hold a whole minute. The processes are symmetric.

Gateway: requests of every route and gate, one connection besides the calls inside the
process. `ServerSound` (`TypeOK`, `PairedOnce`, `EventsAreNewest`), `AckedRunsOnce` (once a
mutation was acknowledged under a key, nothing runs under that key again, through HTTP,
JSON-RPC or a call inside one). Bounds: three requests let one pair, one act and one
repeat; windows of two seconds with two requests, an ACP limit and an event ring of one are
reached; the wall clock shows one of three times, in any order; requests and events
together are at most four.

Tools: three configurations, eleven calls, another process
that swaps names for links, a child that writes, forks and exits, an operator, kills of
the daemon, failing system calls. `FilesSound` (`FilesStayInside`, `WriteIsAllOrNothing`),
`ProcessSettled`, `NoEffectUnderStop`. Bounds: two calls and two lives, so that a call meets
the temporary file of one that was killed; one command.

**`agent_services`** (`AgentServices.cfg`, 168 thousand): a behaviour is one of the
providers or of the memory, which share no state. Providers: every kind alone, two chains
and a router, against a server that answers, refuses, fails, times out and breaks streams.
`RetriesSound` (`TypeOK`, `RequestsBounded`, `PermanentEnds`, `CredentialsEnd`: outside the
chain a 401 or 403 is not asked again), `StreamFaithful`, `EveryCallEnds`. Bounds: one retry
in each of the three loops; streams of up to nine symbols cut anywhere, with limits of eight
and nine; one call, since calls share nothing.

Memory: both backends under the same calls, `MemorySound` (`ForgottenStaysForgotten`,
`BackendsAgree`). Bounds: three calls, one restart and one fault anywhere among them, with a
text both backends read alike and one they do not. `BackendsAgree` says what a search for a
text may differ in: each backend finds only what the other exports too, and for a text that
both read alike they find the same.

**`parts`** (`Parts.cfg`, 972 thousand): a behaviour is one of one component, the others
stay in one initial state, so the run is the union of five checks. `IngressSound`
(`NonceOnceInWindow`, `AttachmentsOwned`, `AcceptedInOrder`, until the failure that
`ingress_lost` shows), `HostSound` (`InUseStaysLoaded`, `RuntimesBalanced`,
`NoEntryOfTheGone`) and `GuestOutcomeTrue`, `BootSound` (`ClearedExactly`, `UsersGoFirst`,
`ToolsHaveConfig`, `ExposedWithinGroups`), `BrowserSound` (`ReportsOwnPage`,
`ClickHitsListed`), `RemoteSound` (`McpCallSettled`, `HttpCompletesOnce`). Bounds: a nonce
cache of two with five requests; two loads and two objects; configurations that meet every
creation and limit; up to four browser calls, giving up after two messages, with two listed
elements of a page that may have three; two MCP calls on pipes of two frames, or two HTTP
calls.
`RemoteSound` speaks of calls that returned: a server that ignores SIGTERM holds the wait
of the client (`mcp.c:926`) for ever, and a write to one that has gone ends the process;
both are behaviours of the model and neither violates it.

Five runs show where the code breaks what the documentation says (quoted in `PROJECT.json`).

| Run | Property | What happens |
|---|---|---|
| `turn_queue_moved` | `CancelledNeverOk` | the fifth job moves the vector while a turn runs; the turn reads its cancel flag from the old block |
| `boot_session` | `TurnsSeeTheirConfig` | the tools of a CLI session read a configuration that was cleared when the session was opened |
| `providers_refused` | `RefusalsNotRetried` | a request answered with 400 is sent again, and by the reliable chain one answered with 401 or 403 |
| `plugin_failed_load` | `FailedLoadLeavesNothing` | a plugin whose init registered an observer and failed is freed and the observer stays; the tools of a WebAssembly guest that failed stay too |
| `ingress_lost` | `QueuedKeepsItsFile` | a webhook message is queued, its nonce cannot be remembered, and what the queue holds is freed and its file removed |

Other disagreements met while modelling are part of the models, and the properties above
name them as exceptions; `PROJECT.json` has each at its line among the hazards.

- A hard shutdown does not cancel the token, so a completion may still add a task
  (`loop.c:513`; `docs/runtime-event-loop.md:134`, `:148`).
- A cancelled asynchronous turn hands no receipts to its caller (`agent.c:2746`; `:94`).
- A turn cancelled during the approval prompt still runs the tool (`agent.c:1861`; `:92`).
- After a restart a thread's messages are in the conversation's history
  (`orchestrator.c:3310`; `docs/architecture-map.md:624`).
- The second webhook message without an id is taken for a duplicate
  (`orchestrator.c:4588`; `docs/request-lifecycle.md:25`).
- With nanocron a job of five fields whose minute begins between two passes is not run
  (`autonomy.c:1297`; `docs/runtime-event-loop.md:82`, `:111`).
- A blocking turn cancelled before it starts emits no terminal observer event
  (`agent.c:399`; `:96`; `ReportedOnce` states the exception); shutdown signals the loop's
  token and not the turns' (`loop.c:244`; `:137`); drain runs the head job a second time
  (`turn_queue.c:118`; `:119`); an interrupting job carries only the latest queued window
  (`turn_queue.c:73`; `schema/fields.yaml:416`).

Deadlock checking is off where the system may come to rest: a queue with nothing to do or
destroyed, a loop that returned, a turn that is done, a daemon that has ended, and wherever
the bound on arrivals, requests or calls is used up.

## 4. Fairness

- `TurnQueue`: the task, the completion of a running turn, and the functions on the stack
  are weakly fair. The timer of the task repeats, every provider and tool request has a
  timeout, and a function that was entered returns. Callers are not fair.
- `RuntimeLoop`: a callback that was entered returns; pending closes and completions are
  served, because libuv serves them in each iteration. No fairness on tasks firing,
  failing or on signals: `StopReturns` does not need it.
- `AgentTurn`: a turn that can take a step takes one (`TurnStep`): provider, tool and
  approval each end with an answer, an error or a timeout. Cancellation and deadline are
  not fair.
- `Orchestrator`: the poll task and the restart by the supervisor are weakly fair;
  arrivals, faults and crashes are not, and are bounded.
- `Providers`: the call under way is weakly fair, because every transfer and child process
  has a timeout.
- `Telegram`: polling, the requests of the call under way, the runtime's release of a
  message and the clock are weakly fair: the loop's poll task repeats and every request has
  a timeout. Faults and crashes are bounded.
- The other modules check safety only and assume no fairness.

## 5. Proofs

The theorems hold for every value of the constants that satisfies the modules' named
assumptions. Most say that limits are numbers, positive where the code divides by them or
needs one place, and that the setups offered are well formed (`SetupsBuilt`: something is
built, and routes lead to what was built; `CronAssumption`: the jobs of a state file have
the fields of a job, and a configuration declares at most one; `StreamsAssumption`: a stream
is a sequence of symbols, the tool calls of a document a list). These say more:

- `MessagesAssumption`: a message is identified by its number, so a second delivery is the
  same message. `UpdatesNumbered`: the service numbers its updates in order.
- `RequestsAssumption`: a request has the fields of `sc_gateway_request`, and a JSON-RPC
  call an inner request to one of the paths JSON-RPC serves. `EnvsAssumption`: a turn ends
  in one of three ways.
- `TextsAssumption`: what is sent is a sequence of bytes, and the limit of its parts a
  number (any number: without a limit it is zero or below). `MemoryAssumption`: keys have an
  order, as `strcmp` gives them one, and the turns are at most three.
- `WorkspaceIsW`, in `FilesSoundHolds` alone: the model's directory tree has its workspace
  at `/w`.
- `PlainNames`, in `HistoryFaithfulHolds` alone: names of channels and senders have no `_`.
  The reload cuts a session key at its first and its last `_`, so a sender whose name has
  one is filed under another conversation after a restart; names of conversations are free.

TLC evaluates the assumptions of the modules on the instances of the runs.

**`TurnQueueProofs!QueueCorrect`**: `QueueSound`, for callers that do not drain while an
asynchronous turn runs (`DrainInFlight = FALSE`: drain does not look at `in_flight`, so
without this rule it answers the head under the running turn). None of its parts is
inductive: that an answer goes to the right job needs that the running turn is the head's
(`TurnIsHead`), which survives an answer only if the head being served has been answered
and the others have not (`ServedHead`, `AnsweredBehind`), which in turn needs that ids
increase along the queue (`IdsIncrease`). Their conjunction is `QueueInv`.
**`CancelReachesUnmovedHolds`** adds `HeadActive`: the job whose turn runs is marked
active, so the turn reads its own flag. **`WindowCorrect`** is `WindowSound`. Its
invariant `WindowInv` stands on `QueueInv`: a window ends with its job's own input, its ids
increase and are below the next id, and an id in it that is still queued has the job's
key. The last part carries the proof: an enqueue builds a window from those of the jobs it
matches, and what it takes over has the right key only because theirs had.

**`TurnQueueProofs!QueueImplementsMailbox`**: the queue implements the mailbox, from
`QueueInv` and one lemma per kind of step: an accepted job is a submission (`SubmitMaps`),
an answer at the head is a reply (`ReplyMaps`), the removal of an answered head and
everything that keeps the ids changes nothing the mailbox sees (`RemoveMaps`,
`SameIdsMap`). It rests on what mapping a sequence of jobs to their ids does to `Append`
and `Tail` (`IdsOfAppend`, `IdsOfTail`).

**`RuntimeLoopProofs!LoopCorrect`**: `LoopSound` and `ListIsArmed`. They are inductive
together with `StopInv`: once the token is set the task list is empty, a shutdown phase and
a graceful signal set the token. It holds because `RequestStop` closes the timers before
anything else can run and `AddTask` refuses once the token is set; `ListIsArmed` then turns
the empty list into timers that cannot fire. **`NoRunAfterRequestHolds`** is the action
property that follows. **`ErrorReportedHolds`** needs libuv's order (`OldLibuv = FALSE`):
`ErrorInv` says that after a failure the loop is past its poll, so no signal can overwrite
the status before `uv_run` ends; with the older order the theorem is false.
**`OnceRunsEachHolds`** is for the once mode (`OnceMode`: finitely many tasks, all
repeating, none added late, the iteration limit their number). `OnceInv` says that the
iterations are as many as the tasks that fired, each once, so the limit is met exactly when
the set is full.

**`RuntimeLoopProofs!BootSoundHolds`** is `BootSound`. The invariant says what exists at
each step of the construction: exactly what `boot_owned` holds, with the configuration and
the secret store beside it, and the provider counted once although a list of handles and a
member may both name it, and a tool only beside its configuration. During the takedown what
exists is what is left to destroy, in the rank order of `boot_owned_clear`, and the rank of
a user is below that of what it uses. For `ExposedWithinGroups`, what bootstrap says about
each built-in tool is compared with what the tool declares of itself.

**`AgentTurnProofs!TurnCorrect`**: `TurnSound`, in both implementations. The invariant
`AgentInv` has a part per concern: `PolicyInv` (grants are approved, a call that runs
passed every check and its tool was not declined), `ReceiptInv` (receipts are never behind
effects), `TraceInv` (nothing is appended or persisted before the end), `CountInv` (the
calls of the loop before the retry are within one limit). **`DeclinedStaysDeclinedHolds`**
follows from `PolicyInv`; **`NoUnaskedToolAfterCancelHolds`** from the guards of the steps
that invoke a tool, in one step, because no other actor comes between the check and the
call. **`TurnReportedHolds`** is `TurnReported`, from `EndInv`: the end is reported when
and only when the turn is done (`ReportInv`), and the success cache holds every call that
succeeded in this loop, so a call that is running is not in it (`SuccessInv`).

**`AgentTurnProofs!JobsKeptHolds`** and **`PassRunsAllDueHolds`** are about `Cron`.
`CronInv` has a part for the daemon and one for the file. `DaemonInv`: one job to an id,
each with a number of its own; what a pass has behind it is what was due and has been run
(`PassedGood`); the mark of a finished turn goes to the job the turn began with, unless a
tool moved the vector (`TurnGood`). `FileInv`: the copy in the hands of a command that runs
alone is its own edit of what the finished commands left. That a saved file is read back as
it was (`LoadSame`), and that the loops of `cron_store_parse_body` and of the vector's
growth end as they should, are inductions on how far the loop is; they are made with the
set of the numbers at which the claim holds (`UpTo`), which needs no induction theorem with
an operator for a parameter.

**`OrchestratorProofs`**. **`AdmittedOnceInWindowHolds`**: `SeenInv` says which suffix of
the admissions the remembered ids are, with the one place a failed copy can cost; that the
cache is cut at its front then gives the distance. **`OneAnswerPerAdmissionHolds`**:
`AnswerInv` says that a message in process whose final text was not sent has an admission
without an answer; `FlowInv` ties the program counter to the message.
**`StoresAgreeHolds`** is the part of `HistoryFaithful` about the session store: `StoreInv`
says that the metadata is ahead of the rows by the message in progress once it is counted,
and that an answer in progress has its question in the last entry of the store in use,
through failing writes and crashes. **`HistoryFaithfulHolds`** is the whole of
`HistoryFaithful`, from `HistInv`: histories hold only answered messages of their scope, or
after a crash of its threads; rows and lines are of messages whose answer was sent; and
while the rows are in use, no write of them failed and none is of a thread or under a
refused key, the histories are the reload of the rows, plus the message in progress between
its append and its insert. The step that inserts needs that one more row is one more
message remembered (`ReloadAppend`); that the reload files it where it came from is the
lemma about cutting a key.

**`GatewayProofs`**. A handler is an operator on the server, so the proof is one about
outcomes: an outcome that leaves a good server, bounds its acknowledgements by the cache
and neither pairs nor emits beyond what it records is shown to stay one through the
handlers, the cache, the gates, JSON-RPC and ACP, with one lemma per layer.
**`ServerSoundHolds`** needs that session ids are unique (so ending one session ends the
one that was started) and that a call inside JSON-RPC cannot become a pairing request.
**`AckedRunsOnceHolds`** needs that every acknowledged key is in the cache and that the
cache holds successes under non-empty keys only. `ServerInv` is their conjunction with the
pairing and event parts.

**`ToolsProofs`**. `CallInv` says at which step a call of which tool and status may be; the
others stand on it. **`ProcessSettledHolds`** (`ProcInv`: outside the runner's loop there
is no child; inside it what was read and what is in the pipe are together what was
written). **`NoEffectUnderStopHolds`** (`StopInv`: in a life that read the stop a call goes
straight to its end). **`WriteIsAllOrNothingHolds`** (`WriteInv`: the target is as before
until the step that publishes, what is published is a whole temporary file, and a step that
fails, or removes the temporary file it found, leaves the target alone).
**`FilesSoundHolds`** adds `InsideInv`: every directory handle a bound call holds is a
directory of the workspace, whatever names have been swapped since.

**`ToolsProofs!MemorySoundHolds`** is `MemorySound`. `MemInv`: one entry to a namespace and
key in the table, in an open transaction and in the markdown store; one record to a key in
a snapshot; a forgotten key is blank in all of them; and while nothing went wrong table,
store and file say the same. A search by whatever text is a subset of the records of the
namespace, in the order of its own backend, so what it finds is in the other's export; for
a text both read alike the two filters are the same. The backends answer in an order of
their own, so it is shown that sorting permutes (a smallest set that fails would have a
smaller one) and that importing a snapshot of distinct keys gives back its texts.

**`PluginsProofs`**. **`HostCorrect`** is `HostSound`: reference counts equal the objects
and observers they stand for, object numbers are fresh, only the newest plugin can be in
the middle of its load (`HostInv`), and an observer's plugin may have failed to load but
was not unloaded (`ObserversHeld`): the count that keeps an unload back includes the
observers, the failed load does not look at it. **`GuestOutcomeTrueHolds`** is the action
property about a guest's call.

**`PluginsProofs!UpdatesTakenHolds`** is `UpdatesTaken` of the Telegram channel. `PollInv`:
whatever is below the channel's offset, below the offset the service has confirmed, below
the answer in hand and below the update being fetched is decided, and what was handed out
lies below the offset, so a lost answer or a crash can only repeat what is not yet
confirmed. **`SentStandsHolds`** is `SentStands`. `SentInv`: every message reported as sent
stands in its chat; the draft that may still be edited and the question that will be
deleted belong to none of them; of the message under way what was sent so far stands, no
draft is remembered once a part was sent, and the part being posted is the next of the
text. Under it: a request appends to a chat or changes the one message it names
(`ServedServes`); the halving search finds a part of at least one byte and at most the rest
(`NextPart`), so that the parts, joined, are the text (`PartsJoin`).

**`EdgeProofs`** is about what crosses the edge of the process: tool calls, provider calls
and the browser going out, messages coming in. **`RemoteSoundHolds`** is `RemoteSound`:
only a finished MCP call has an answer, only from a server that ended well, and a server
that was waited for does not run (`McpInv`); every asynchronous state that exists has a
call of its own, not yet completed (`CallsInv`). **`IngressSoundHolds`** is `IngressSound`:
`IngressInv` is a disjunction for the webhook (its queue was freed under it, or the three
parts hold), while the other channels keep their order throughout (`BusInv`). `NonceInv`:
the nonces the webhook keeps are the last it accepted, in order and no more than the limit,
so the check against the kept ones is a check against that many accepted ones. `OrderInv`:
what was accepted is, element by element, what was handed over and then the queue.
`AttachmentsOwned`, which is part of the property, is inductive once the queues have their
shape: a file is created only under a free name, so it has one owner, and only the clearing
of that owner removes it. That the mail queue is empty between two polls (`MailShape`)
makes a mail message the one the same poll accepted.

**`EdgeProofs!BrowserSoundHolds`** is `BrowserSound`: no two sessions share a websocket, the
numbers on a wire are below the tool's next one, and what lies on it under the current
number was asked by the current request, so a late answer of an earlier call is never taken
for this one's. **`RetriesSoundHolds`** is `RetriesSound`. `CallSound` says, for each phase
of a call, how much of each of the three nested loops is used: providers whose turn has not
come were sent nothing, an attempt repeats only after an error that is not final, and an
asynchronous call has one provider and one attempt. The bound is the product of the loops.
`CodesKept` adds which refusals each provider has answered: outside the chain, no call goes
on that met a 401 or 403.

**`EdgeProofs!StreamFaithfulHolds`** is `StreamFaithful`, for streams of any length and any
documents. `ParserAt(kind, body, k)` and `OutAt(kind, body, k)` say what the parser holds
and what the callback has after the first `k` symbols of a well-formed stream: the symbols
since the last event that ended, and what the events that ended tell. `FeedReads` is the
step from one symbol to the next (a symbol ends an event, is the rest of a line break, or
joins the buffer), `PushReads` the same for a chunk of any length, `FinishReads` the end of
the stream, the last line of ollama without its line feed included. The inductive invariant
`StreamSound` adds to `CallSound` that, while the first provider's one request is being
answered, some `k` has the parser and the callback at those two places and the rest of the
stream still to come; that the callback has nothing before the first request; and that only
a compatible provider's stream is read in one piece. The induction over symbols is done
without an operator parameter: the set of the numbers up to which a claim holds has 0 and
every successor (`UpTo`), for the cutting loop as for `FlattenSeq`, in which the reference
is written.

Only model-checked:

- Liveness (`EventuallyAnswered`, `StopReturns`, `TurnEnds`, `InboxesDrain`,
  `EveryCallEnds`, `EveryUpdateSettled`): it needs fairness and `ENABLED`, which the prover
  does not reach.

Every other property of the passing runs has a theorem.

## 6. What is not modelled

- Memory exhaustion, except in `TurnQueue`, `Gateway` (a full cache), `Ingress` (before and
  after a message is queued) and `Boot` (any creation fails).
- The receipt chain and its store (`security/receipts.c`, `store.c`): nothing outside the
  tests gives a tool a chain, saves one or loads one.
- In the agent: prompt text, pruning by character budget, history compression, and two
  turns of one agent at a time. In the runtime loop: the nested `uv_run` of a failing
  registration (`loop.c:220`) runs no foreign callback.
- Platform adapters of `orchestrator.c` that only format one HTTP request; codecs and
  speech models; what a sandbox enforces; libcurl and libuv beyond what their callers see.
- The heartbeat (one turn per period), SOP documents (their run state lives in one tool
  call), run records and validation of cron jobs.
- The encrypted secret file, configuration parsing and its generated schema, JSON,
  formatting, wording, command-line parsing, logging sinks, hardware drivers.
- Compositions: each component sees the ones it calls as an environment that may do
  whatever their interface allows. `Gateway` contains `Acp`, `Providers` the HTTP client
  and the wire, `Tools` the security decisions; queue, loop and agent are not composed,
  because no code under `src/` composes them.

## 7. Plan

1. Two turns of one agent, whose session histories move in their vector
   (`agent.c:1027`).
2. The secret file with a crash between write and rename.
