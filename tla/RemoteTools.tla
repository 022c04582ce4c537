---------------------------- MODULE RemoteTools -----------------------------
(***************************************************************************)
(* The tools that ask someone else: the MCP client (tools/mcp.c), which    *)
(* starts a server process for every call and talks to it through two      *)
(* pipes, or posts to a server; and http and web_search                    *)
(* (tools/http_tool.c, http_tool_async.c), which the agent's loop runs as  *)
(* an asynchronous operation of the HTTP client.                           *)
(*                                                                         *)
(* Other actors: the server process reads, writes, closes its output,      *)
(* exits, or ignores SIGTERM; the HTTP client completes an operation when  *)
(* the answer is there, the time is up or the turn is cancelled.  A write  *)
(* to a server that has gone raises SIGPIPE, which nothing in the program  *)
(* ignores.                                                                *)
(*                                                                         *)
(* A tool's call of sc_tool_record_receipt is not a step here: boot gives  *)
(* the tools a context without a receipt chain, so that the call records   *)
(* nothing and cannot fail.                                                *)
(***************************************************************************)
EXTENDS Integers, Sequences, FiniteSets, SequencesExt

CONSTANTS
    RemoteServers,    \* the configured servers
    McpCalls,      \* the calls a model may make of an MCP tool
    HttpCalls,     \* the calls a model may make of http and web_search
    Replies,       \* what an HTTP server may answer
    PipeRoom,      \* frames a pipe holds
    McpMaxOutput,  \* max_output_bytes, in frames
    RemoteBudgets  \* how often what may happen

ASSUME RemoteAssumption == PipeRoom \in Nat \ {0} /\ McpMaxOutput \in Nat

VARIABLES
    mcp,       \* the MCP call in progress: pc, what is written and read
    child,     \* the server process
    ops,       \* the http_tool_async_states that exist
    settled,   \* every call so far: its tool, how often completed, and with what
    process,   \* "up", or "killed" by a signal
    left       \* what is left of the budget

remoteVars == <<mcp, child, ops, settled, process, left>>

NoMcp == [pc |-> "idle", server |-> CHOOSE s \in RemoteServers : TRUE, purpose |-> "call", frames |-> 0,
          stream |-> <<>>, st |-> "ok", reply |-> 0, names |-> 0]
NoChild == [st |-> "none", in |-> 0, out |-> <<>>, open |-> FALSE, code |-> 0, term |-> FALSE, deaf |-> FALSE]

RemoteInit ==
    /\ mcp = NoMcp /\ child = NoChild /\ ops = {} /\ settled = <<>>
    /\ process = "up" /\ left \in RemoteBudgets

Use(f) == left[f] > 0 /\ left' = [left EXCEPT ![f] = @ - 1]

(***************************************************************************)
(* MCP: what is decided before a request is made.                          *)
(***************************************************************************)
McpToolRisk(server) == IF server.transport = "stdio" THEN "side_effect" ELSE "network"

BuildMcpPrefixedToolName(server, tool) == <<server.name, "__", tool>>

BuildToolsCallJson(args) ==
    CASE args \in {"none", "object"} -> "ok" [] args = "broken" -> "parse" [] OTHER -> "invalid"
BuildStdioArgv(server) ==
    CASE server.args \in {"none", "array"} -> "ok" [] server.args = "broken" -> "parse" [] OTHER -> "invalid"
AddHeaderList(headers) ==
    CASE headers \in {"none", "array"} -> "ok" [] headers = "broken" -> "parse" [] OTHER -> "invalid"

FirstBad(checks) ==
    LET bad == {i \in 1..Len(checks) : checks[i] # "ok"}
    IN  IF bad = {} THEN "ok" ELSE checks[Min(bad)]
OkIf(holds, st) == IF holds THEN "ok" ELSE st

(* The policy decides by the risk of the request: it may refuse it, or ask *)
(* for an approval, which only the override for this tool gives.           *)
SecurityCheck(call, risk) ==
    FirstBad(<<OkIf(risk \notin call.forbidden, "denied"), OkIf(risk \in call.ask => call.granted, "cancelled")>>)

McpInvokeCheck(server, call) ==
    FirstBad(<< OkIf(~call.cancelled, "cancelled"), OkIf(server.target # "" \/ call.tool # "", "invalid"),
                SecurityCheck(call, McpToolRisk(server)),
                OkIf(server.transport \in {"stdio", "http", "sse"}, "invalid"), BuildToolsCallJson(call.args) >>)
McpStdioCheck(server) == FirstBad(<<OkIf(server.command # "", "invalid"), BuildStdioArgv(server)>>)
McpHttpCheck(server) ==
    FirstBad(<<OkIf(server.url # "", "invalid"), OkIf(server.urlAllowed, "denied"), AddHeaderList(server.headers)>>)

(***************************************************************************)
(* MCP: what is made of the answer.  A frame is [id, whole]; one that is   *)
(* not whole promises more bytes than came.                                *)
(***************************************************************************)
ExtractMcpResponse(stream, wanted) ==
    LET broken == {i \in 1..Len(stream) : ~stream[i].whole}
        found == {i \in 1..Len(stream) : stream[i].id = wanted /\ \A b \in broken : i < b}
    IN  IF found = {} THEN 0 ELSE stream[Min(found)].id

McpCurlWriteCallback(reply) == reply.size > McpMaxOutput
McpRequestHttp(server, reply) ==
    IF McpHttpCheck(server) # "ok" THEN McpHttpCheck(server)
    ELSE IF reply.curl # "ok" \/ McpCurlWriteCallback(reply) \/ reply.code \notin 200..299 THEN "http" ELSE "ok"

(* The names tools/list returned: all of them, or none.                    *)
McpNamesFromResponse(names) == IF "" \in names THEN {} ELSE names
McpDiscover(server, names) ==
    {BuildMcpPrefixedToolName(server, name) : name \in McpNamesFromResponse(names)}

(***************************************************************************)
(* MCP: a call.                                                            *)
(***************************************************************************)
Record(kind, st) == Append(settled, [kind |-> kind, times |-> 1, st |-> st])

McpInvokeFails(server, call) ==
    LET st == FirstBad(<<McpInvokeCheck(server, call),
                         IF server.transport = "stdio" THEN McpStdioCheck(server) ELSE "ok">>)
    IN  /\ mcp.pc = "idle" /\ process = "up" /\ st # "ok" /\ Use("calls")
        /\ settled' = Record("mcp", st)
        /\ UNCHANGED <<mcp, child, ops, process>>

McpInvokeHttp(server, call, reply) ==
    /\ mcp.pc = "idle" /\ process = "up" /\ Use("calls")
    /\ McpInvokeCheck(server, call) = "ok" /\ server.transport # "stdio"
    /\ settled' = Record("mcp", McpRequestHttp(server, reply))
    /\ UNCHANGED <<mcp, child, ops, process>>

(* Three frames: initialize, the notification and the request itself.      *)
McpSpawn(server, purpose, started) ==
    /\ mcp' = [NoMcp EXCEPT !.pc = IF started THEN "write" ELSE "idle", !.server = server, !.purpose = purpose,
                            !.frames = 3]
    /\ child' = IF started THEN [NoChild EXCEPT !.st = "running", !.open = TRUE] ELSE NoChild
    /\ settled' = IF started \/ purpose = "list" THEN settled ELSE Record("mcp", "io")
    /\ UNCHANGED <<ops, process>>

McpInvokeStdio(server, call, started) ==
    /\ mcp.pc = "idle" /\ process = "up" /\ server.transport = "stdio"
    /\ McpInvokeCheck(server, call) = "ok" /\ McpStdioCheck(server) = "ok"
    /\ IF started THEN Use("calls") ELSE Use("faults")
    /\ McpSpawn(server, "call", started)

McpDiscoverStdio(server, started) ==
    /\ mcp.pc = "idle" /\ process = "up" /\ server.transport = "stdio" /\ McpStdioCheck(server) = "ok"
    /\ IF started THEN Use("calls") ELSE Use("faults")
    /\ McpSpawn(server, "list", started)

(* Over HTTP the list is there when the call returns, or is not.           *)
McpDiscoverHttp(server, reply, names) ==
    LET listed == IF McpRequestHttp(server, reply) = "ok" THEN McpDiscover(server, names) ELSE {}
    IN  /\ mcp.pc = "idle" /\ process = "up" /\ server.transport \in {"http", "sse"} /\ Use("calls")
        /\ mcp' = [NoMcp EXCEPT !.server = server, !.purpose = "list", !.names = Cardinality(listed)]
        /\ UNCHANGED <<child, ops, settled, process>>

(* write_all: blocks on a full pipe, with no time limit.                   *)
McpWriteFrame ==
    /\ mcp.pc = "write" /\ process = "up" /\ mcp.frames > 0
    /\ IF child.st = "exited" THEN process' = "killed" /\ UNCHANGED <<mcp, child>>
       ELSE /\ child.in < PipeRoom /\ child' = [child EXCEPT !.in = @ + 1]
            /\ mcp' = [mcp EXCEPT !.frames = @ - 1] /\ UNCHANGED process
    /\ UNCHANGED <<ops, settled, left>>

McpWriteFails ==
    /\ mcp.pc = "write" /\ process = "up" /\ mcp.frames > 0 /\ Use("faults")
    /\ mcp' = [mcp EXCEPT !.pc = "terminate", !.st = "io"]
    /\ UNCHANGED <<child, ops, settled, process>>

McpCloseInput ==
    /\ mcp.pc = "write" /\ process = "up" /\ mcp.frames = 0
    /\ mcp' = [mcp EXCEPT !.pc = "read"] /\ UNCHANGED <<child, ops, settled, process, left>>

(* read_child_output.  The time limit is that of one poll.                 *)
McpReadFrame ==
    /\ mcp.pc = "read" /\ process = "up" /\ child.out # <<>>
    /\ child' = [child EXCEPT !.out = Tail(@)]
    /\ mcp' = IF Len(mcp.stream) + 1 > McpMaxOutput
              THEN [mcp EXCEPT !.pc = "kill", !.st = "io"]
              ELSE [mcp EXCEPT !.stream = Append(@, Head(child.out))]
    /\ UNCHANGED <<ops, settled, process, left>>

McpPollTimeout ==
    /\ mcp.pc = "read" /\ process = "up" /\ child.out = <<>> /\ child.open
    /\ mcp' = [mcp EXCEPT !.pc = "kill", !.st = "timeout"]
    /\ UNCHANGED <<child, ops, settled, process, left>>

McpPollHangup ==
    /\ mcp.pc = "read" /\ process = "up" /\ child.out = <<>> /\ ~child.open
    /\ mcp' = [mcp EXCEPT !.pc = "wait"]
    /\ UNCHANGED <<child, ops, settled, process, left>>

McpKill ==
    /\ mcp.pc = "kill" /\ process = "up"
    /\ child' = [child EXCEPT !.term = TRUE] /\ mcp' = [mcp EXCEPT !.pc = "wait"]
    /\ UNCHANGED <<ops, settled, process, left>>

Reaped == [child EXCEPT !.st = "reaped", !.open = FALSE, !.out = <<>>]

(* waitpid, then the answer is looked for in what was read.                *)
McpWait ==
    LET st == IF mcp.st # "ok" THEN mcp.st ELSE IF child.code # 0 THEN "io" ELSE "ok"
        reply == ExtractMcpResponse(mcp.stream, 2)
    IN  /\ mcp.pc = "wait" /\ process = "up" /\ child.st = "exited" /\ child' = Reaped
        /\ mcp' = IF st = "ok" /\ reply # 0 THEN [mcp EXCEPT !.pc = "done", !.reply = reply]
                  ELSE [mcp EXCEPT !.pc = "terminate", !.st = IF st = "ok" THEN "parse" ELSE st]
        /\ UNCHANGED <<ops, settled, process, left>>

(* The end of mcp_request_stdio after a failure: SIGTERM and waitpid once  *)
(* more.  A server already waited for has no process left: the signal goes *)
(* to whatever has its number now, and waitpid returns at once.            *)
(* Mutant: the failed server is not waited for.                            *)
McpTerminateOnly ==
    /\ mcp.pc = "terminate" /\ process = "up"
    /\ child' = IF child.st = "reaped" THEN child ELSE [child EXCEPT !.term = TRUE]
    /\ mcp' = [mcp EXCEPT !.pc = "done"]
    /\ UNCHANGED <<ops, settled, process, left>>

McpTerminate ==
    /\ mcp.pc = "terminate" /\ process = "up"
    /\ IF child.st = "reaped" THEN child' = child /\ mcp' = [mcp EXCEPT !.pc = "done"]
       ELSE IF ~child.term THEN child' = [child EXCEPT !.term = TRUE] /\ mcp' = mcp
       ELSE child.st = "exited" /\ child' = Reaped /\ mcp' = [mcp EXCEPT !.pc = "done"]
    /\ UNCHANGED <<ops, settled, process, left>>

(* A call is settled whatever became of it; discovery is nobody's call.    *)
McpReturn(names) ==
    /\ mcp.pc = "done" /\ process = "up"
    /\ mcp' = [mcp EXCEPT !.pc = "idle",
                          !.names = IF mcp.purpose = "list" /\ mcp.st = "ok"
                                    THEN Cardinality(McpDiscover(mcp.server, names)) ELSE 0]
    /\ settled' = IF mcp.purpose = "call" THEN Record("mcp", mcp.st) ELSE settled
    /\ UNCHANGED <<child, ops, process, left>>

(***************************************************************************)
(* The server process.                                                     *)
(***************************************************************************)
ServerReads ==
    /\ child.st = "running" /\ child.in > 0 /\ child' = [child EXCEPT !.in = @ - 1]
    /\ UNCHANGED <<mcp, ops, settled, process, left>>
ServerWrites(frame) ==
    /\ child.st = "running" /\ child.open /\ Len(child.out) < PipeRoom /\ Use("writes")
    /\ child' = [child EXCEPT !.out = Append(@, frame)] /\ UNCHANGED <<mcp, ops, settled, process>>
ServerCloses ==
    /\ child.st = "running" /\ child.open /\ Use("faults")
    /\ child' = [child EXCEPT !.open = FALSE] /\ UNCHANGED <<mcp, ops, settled, process>>
ServerIgnoresTerm ==
    /\ child.st = "running" /\ ~child.deaf /\ Use("faults")
    /\ child' = [child EXCEPT !.deaf = TRUE] /\ UNCHANGED <<mcp, ops, settled, process>>
ServerExits(code) ==
    /\ child.st = "running"
    /\ child' = [child EXCEPT !.st = "exited", !.open = FALSE, !.code = code]
    /\ UNCHANGED <<mcp, ops, settled, process, left>>
ServerDiesOfTerm ==
    /\ child.st = "running" /\ child.term /\ ~child.deaf
    /\ child' = [child EXCEPT !.st = "exited", !.open = FALSE, !.code = 15]
    /\ UNCHANGED <<mcp, ops, settled, process, left>>

(***************************************************************************)
(* http and web_search: the request a call makes.                          *)
(***************************************************************************)
MethodRisk(method) ==
    CASE method \in {"GET", "HEAD"} -> "readonly" [] method = "DELETE" -> "destructive" [] OTHER -> "network"

(* Header lines [name, value]; a line without a colon, or with a line      *)
(* break, spoils them all.                                                 *)
HttpHeadersFromJson(headers) ==
    CASE headers = "none" -> "ok" [] headers = "lines" -> "ok" [] headers = "broken" -> "parse" [] OTHER -> "invalid"

EnvValueFromConfig(env) == CASE env = "set" -> "ok" [] env = "crlf" -> "invalid" [] OTHER -> "unsupported"

(* How many credentials a provider needs.                                  *)
SearchCredentials == [brave |-> 1, serper |-> 1, google_cse |-> 2]
SearchRequest(call) ==
    IF call.provider \in {"", "none"} \/ call.provider \notin DOMAIN SearchCredentials THEN "unsupported"
    ELSE FirstBad([i \in 1..SearchCredentials[call.provider] |-> EnvValueFromConfig(call.env[i])])

CheckCancelled(call) == OkIf(call.cancelled = "no", "cancelled")
HttpArgs(call) == OkIf(call.method # "" /\ call.url # "", "invalid")

(* What must pass before a request leaves, in the order of invoke_http and *)
(* invoke_web_search.                                                      *)
InvokeHttpCheck(call) ==
    FirstBad(<<CheckCancelled(call), HttpArgs(call), SecurityCheck(call, MethodRisk(call.method)),
               HttpHeadersFromJson(call.headers)>>)
InvokeWebSearchCheck(call) ==
    FirstBad(<<CheckCancelled(call), OkIf(call.query # "", "invalid"), SearchRequest(call), SecurityCheck(call, "readonly")>>)

(* http_tool_invoke_async reads the query of a search without looking at   *)
(* the status, so that a cancelled search goes on.                         *)
InvokeAsyncCheck(call) ==
    IF call.tool = "http" THEN InvokeHttpCheck(call)
    ELSE FirstBad(<<OkIf(call.query # "", "invalid"), SearchRequest(call), SecurityCheck(call, "readonly")>>)

HttpToolTranslateStatus(reply) ==
    IF reply.curl = "ok" /\ reply.code < 400 /\ reply.size <= McpMaxOutput THEN "ok"
    ELSE IF reply.curl = "unsupported" THEN "unsupported"
    ELSE IF reply.size > McpMaxOutput \/ reply.code >= 400 THEN "http" ELSE reply.curl

(* The one synchronous path; the fake provider answers by itself.          *)
HttpPerform(call, reply) ==
    LET check == IF call.tool = "http" THEN InvokeHttpCheck(call) ELSE InvokeWebSearchCheck(call)
        fake == call.tool = "web_search" /\ call.provider = "fake" /\ CheckCancelled(call) = "ok" /\ call.query # ""
    IN  IF fake THEN "ok" ELSE IF check # "ok" THEN check ELSE HttpToolTranslateStatus(reply)

HttpToolInvoke(call, reply) ==
    /\ process = "up" /\ Use("http")
    /\ settled' = Record("http", HttpPerform(call, reply))
    /\ UNCHANGED <<mcp, child, ops, process>>

(***************************************************************************)
(* http and web_search, asynchronously.  A completion destroys its state.  *)
(***************************************************************************)
Complete(list, i, st) ==
    LET call == list[i]
    IN  [list EXCEPT ![i] = [call EXCEPT !.times = call.times + 1, !.st = st]]
Pending == Append(settled, [kind |-> "http", times |-> 0, st |-> "ok"])

HttpToolInvokeAsync(call) ==
    LET i == Len(settled) + 1
        fake == call.tool = "web_search" /\ call.provider = "fake" /\ call.query # ""
        st == InvokeAsyncCheck(call)
    IN  /\ process = "up" /\ Use("http") /\ UNCHANGED <<mcp, child, process>>
        /\ \/ fake /\ settled' = Complete(Pending, i, "ok") /\ UNCHANGED ops
           \/ ~fake /\ st # "ok" /\ settled' = Complete(Pending, i, st) /\ UNCHANGED ops
           \/ ~fake /\ st = "ok" /\ settled' = Pending /\ ops' = ops \union {[op |-> i, cancelled |-> call.cancelled]}

(* Only the token of the tool's context reaches the HTTP client.           *)
HttpToolAsyncComplete(op, reply) ==
    /\ op \in ops /\ process = "up" /\ op.cancelled # "context"
    /\ ops' = ops \ {op} /\ settled' = Complete(settled, op.op, HttpToolTranslateStatus(reply))
    /\ UNCHANGED <<mcp, child, process, left>>

HttpToolAsyncCancelled(op) ==
    /\ op \in ops /\ process = "up" /\ op.cancelled # "call"
    /\ ops' = ops \ {op} /\ settled' = Complete(settled, op.op, "cancelled")
    /\ UNCHANGED <<mcp, child, process, left>>

RemoteNext ==
    \/ \E server \in RemoteServers, call \in McpCalls :
          \/ McpInvokeFails(server, call)
          \/ \E reply \in Replies : McpInvokeHttp(server, call, reply)
          \/ \E started \in BOOLEAN : McpInvokeStdio(server, call, started)
    \/ \E server \in RemoteServers, started \in BOOLEAN : McpDiscoverStdio(server, started)
    \/ \E server \in RemoteServers, reply \in Replies, names \in {{"a", "b"}, {"a", ""}} : McpDiscoverHttp(server, reply, names)
    \/ McpWriteFrame \/ McpWriteFails \/ McpCloseInput \/ McpReadFrame \/ McpPollTimeout \/ McpPollHangup
    \/ McpKill \/ McpWait \/ McpTerminate
    \/ \E names \in {{"a", "b"}, {"a", ""}} : McpReturn(names)
    \/ ServerReads \/ ServerCloses \/ ServerIgnoresTerm \/ ServerDiesOfTerm
    \/ \E id \in 0..2, whole \in BOOLEAN : ServerWrites([id |-> id, whole |-> whole])
    \/ \E code \in {0, 1} : ServerExits(code)
    \/ \E call \in HttpCalls : HttpToolInvokeAsync(call) \/ \E reply \in Replies : HttpToolInvoke(call, reply)
    \/ \E op \in ops : HttpToolAsyncCancelled(op) \/ \E reply \in Replies : HttpToolAsyncComplete(op, reply)

RemoteSpec == RemoteInit /\ [][RemoteNext]_remoteVars

(***************************************************************************)
(* Properties.                                                             *)
(***************************************************************************)
(* An MCP call over stdio that has returned leaves no process of its own,  *)
(* running or unwaited for, whatever the server did; and what it returned  *)
(* as the answer is a whole frame with the number of its request, from a   *)
(* server that ended well (mcp_request_stdio, read_child_output,           *)
(* extract_mcp_response).                                                  *)
McpCallSettled ==
    mcp.pc = "idle" => /\ child.st \in {"none", "reaped"}
                       /\ mcp.reply \in {0, 2}
                       /\ mcp.reply # 0 => child.code = 0

(* A call is completed exactly once, if it was refused, answered at once,  *)
(* answered later or cancelled, and never while a state for it is left     *)
(* that could complete it again; until then exactly one exists             *)
(* (http_tool_invoke_async, http_tool_async_complete).                     *)
HttpCompletesOnce ==
    \A i \in 1..Len(settled) : settled[i].times = 1 - Cardinality({op \in ops : op.op = i})

(* A call that leaves the process, over a pipe or HTTP, is settled once    *)
(* and leaves nothing behind.                                              *)
RemoteSound == McpCallSettled /\ HttpCompletesOnce
=============================================================================
