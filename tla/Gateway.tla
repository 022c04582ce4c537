------------------------------ MODULE Gateway ------------------------------
(* The gateway (src/gateway/gateway.c): one server, driven by one thread, that
   answers HTTP requests from its listener, WebSocket texts and JSON-RPC calls
   through one route table and one sequence of gates, and keeps sessions, an
   idempotency cache, a ring of events and the connections of its listener.

   A handler is an operator from a server record and a request to an outcome
   [g, code, body, ran, acks]: the new server, the response (code 0 when the
   handler returned an error status instead of a response), the requests whose
   handlers ran, in order, and the keys under which a success was answered.  What the environment decides inside a handler (the
   agent's turn, a failing allocation, a configuration that rejects a value) is
   the record `env` chosen with the request. *)
EXTENDS Acp, TLC

CONSTANTS
    Requests,        \* the requests clients send
    Envs,            \* what the environment decides during one request
    RateWindow, RateLimit, PairLimit, PairTtl,
    PairCreated,     \* when the server and its pairing code were made
    MaxSse, MaxWsQueued,
    InitialToken,    \* the configured bearer token, or NoToken
    PairOrigin,      \* the configured origin, or ""
    Events,          \* events an observer emits: [name, sid]
    Clients,         \* connections of the listener
    Times,           \* what the wall clock may show, in seconds
    MaxRequests, MaxEmits, MaxStarts,
    MaxWork          \* requests and events together

ASSUME GatewayLimits ==
    /\ RateWindow \in Nat \ {0} /\ RateLimit \in Nat \ {0} /\ PairLimit \in Nat \ {0}
    /\ MaxSse \in Nat \ {0} /\ MaxWsQueued \in Nat \ {0} /\ PairTtl \in Nat
    /\ Times \subseteq Nat /\ PairCreated \in Times

\* The fields of sc_gateway_request, and rpc, inner, segments and line for what a
\* JSON-RPC, a static and an ACP handler find in its body and path.
RequestFields ==
    {"path", "method", "body", "tok", "key", "sid", "size", "origin", "rpc", "inner",
     "segments", "line"}

\* The paths jsonrpc_handle_method makes requests for.
JsonrpcPaths ==
    {"/status", "/health", "/ws/chat", "/config/get", "/config/set", "/sessions"}

ASSUME RequestsAssumption ==
    \A q \in Requests :
        /\ DOMAIN q = RequestFields
        /\ q.rpc = "call" => /\ DOMAIN q.inner[1] = RequestFields
                             /\ q.inner[1].path \in JsonrpcPaths
        /\ q.rpc \in {"ping", "unknown", "call"}

\* A turn ends in one of three ways.
ASSUME EnvsAssumption == \A env \in Envs : env.turn \in {"ok", "cancelled", "failed"}

VARIABLES gw, clock, conns, acked, runs, emitted, starts

gatewayVars == <<gw, clock, conns, acked, runs, emitted, starts>>

NoToken == "none"
Empty == ""      \* a text of length 0

\* gateway_routes: path, method, authentication, and whether the route limits its
\* body below the server's limit.
Route(path, method, auth, tight) ==
    [path |-> path, method |-> method, auth |-> auth, tight |-> tight]

gateway_routes ==
    {Route("/status", "GET", "none", FALSE), Route("/health", "GET", "none", FALSE),
     Route("/static/*", "GET", "none", FALSE), Route("/pair", "POST", "pairing", TRUE),
     Route("/ws/chat", "POST", "bearer", FALSE), Route("/jsonrpc", "POST", "bearer", FALSE),
     Route("/acp", "POST", "bearer", FALSE), Route("/sse/events", "GET", "bearer", FALSE),
     Route("/sessions", "GET", "bearer", FALSE),
     Route("/sessions/abort", "POST", "bearer", TRUE),
     Route("/sessions/disconnect", "POST", "bearer", TRUE),
     Route("/config/get", "GET", "bearer", TRUE), Route("/config/set", "POST", "bearer", TRUE)}

\* sc_gateway_server_new.
NewServer ==
    [running |-> FALSE, listening |-> FALSE, token |-> InitialToken, used |-> FALSE,
     reqAt |-> 0, reqN |-> 0, pairAt |-> 0, pairN |-> 0, sessions |-> <<>>,
     events |-> <<>>, idem |-> <<>>, wsq |-> 0, cfg |-> "v0", acp |-> AcpNew(TRUE)]

Out(g, code, body) ==
    [g |-> g, code |-> code, body |-> body, ran |-> <<>>, acks |-> {}]
Say(g, code, text) == Out(g, code, <<text>>)

-----------------------------------------------------------------------------
(* Gates. *)

\* route_is_mutation.
IsMutation(q) == q.method \in {"POST", "PUT", "DELETE"}

\* The key that counts: only a mutation's does.
KeyOf(q) == IF IsMutation(q) THEN q.key ELSE Empty
Keyed(q) == KeyOf(q) # Empty

\* route_find: the routes of the path, and the one of the method.
RoutesOf(q) == {r \in gateway_routes : r.path = q.path}
RouteFor(q) == {r \in RoutesOf(q) : r.method = q.method}

\* token_matches: no token is accepted while none is configured or paired.
TokenMatches(g, tok) == g.token # NoToken /\ tok = g.token

\* A fixed window that starts over when it has passed or the clock went back.
WindowOver(at) == clock < at \/ clock - at >= RateWindow

\* enforce_gates: in this order the server's state, the size, the token, the
\* window's count (a pairing attempt is counted before its code is looked at), and
\* the idempotency key.  The configured timeout is positive.
EnforceGates(g, r, q) ==
    LET pg == IF WindowOver(g.pairAt) THEN [g EXCEPT !.pairAt = clock, !.pairN = 0] ELSE g
        rg == IF WindowOver(g.reqAt) THEN [g EXCEPT !.reqAt = clock, !.reqN = 0] ELSE g
        keyless == IsMutation(q) /\ q.key = Empty
                   /\ q.path \notin {"/pair", "/ws/chat", "/jsonrpc", "/acp"}
        keyed(h) == IF keyless THEN Say(h, 409, "key_required") ELSE Say(h, 0, Empty)
        large == q.size = 2 \/ (q.size = 1 /\ r.tight)
    IN  IF ~g.running /\ q.path # "/status" THEN Say(g, 503, "stopped")
        ELSE IF large THEN Say(g, 413, "too_large")
        ELSE IF r.auth = "bearer" /\ ~TokenMatches(g, q.tok) THEN Say(g, 401, "unauthorized")
        ELSE IF r.auth = "pairing"
        THEN IF pg.pairN >= PairLimit THEN Say(pg, 429, "pairing_limit")
             ELSE keyed([pg EXCEPT !.pairN = @ + 1])
        ELSE IF rg.reqN >= RateLimit THEN Say(rg, 429, "rate_limit")
             ELSE keyed([rg EXCEPT !.reqN = @ + 1])

-----------------------------------------------------------------------------
(* Sessions. *)

SessionIds(g) == {g.sessions[i].id : i \in DOMAIN g.sessions}

\* session_get_or_create.
WithSession(g, id) ==
    IF id \in SessionIds(g) THEN g
    ELSE [g EXCEPT !.sessions =
            Append(@, [id |-> id, state |-> "idle", abort |-> FALSE, out |-> Empty])]

SessionOf(g, id) == SelectInSeq(g.sessions, LAMBDA s : s.id = id)

\* session_remove: the sessions behind the removed one move up.
SessionRemove(g, id) ==
    [g EXCEPT !.sessions = RemoveFirstMatch(@, LAMBDA s : s.id = id)]

\* sc_gateway_session_abort.
SessionAbort(g, id) ==
    [g EXCEPT !.sessions[SessionOf(g, id)] = [@ EXCEPT !.abort = TRUE, !.state = "aborted"]]

-----------------------------------------------------------------------------
(* Handlers. *)

\* pairing_expired: a code made in the future has expired too.
PairingExpired(g) == PairTtl # 0 /\ (clock < PairCreated \/ clock - PairCreated > PairTtl)

\* Mutant: the code can be used again.
HandlePairReplay(g, q) ==
    IF q.body # "code" \/ PairingExpired(g) THEN Say(g, 401, "denied")
    ELSE LET t == IF g.used THEN "again" ELSE "generated"
         IN  Say([g EXCEPT !.token = t, !.used = TRUE], 200, t)

\* handle_pair.
HandlePair(g, q) ==
    CASE q.body # "code" -> Say(g, 401, "denied")
      [] q.body = "code" /\ PairingExpired(g) -> Say(g, 401, "expired")
      [] q.body = "code" /\ ~PairingExpired(g) /\ g.used -> Say(g, 409, "replayed")
      [] OTHER ->
            IF PairOrigin # Empty /\ q.origin # PairOrigin THEN Say(g, 401, "origin")
            ELSE LET t == IF g.token = NoToken THEN "generated" ELSE g.token
                 IN  Say([g EXCEPT !.token = t, !.used = TRUE], 200, t)

\* handle_chat: the session runs one blocking turn.  The abort flag is read before
\* the turn and is never cleared again.
SessionEnds(g, n, state, out) ==
    [g EXCEPT !.sessions[n] = [@ EXCEPT !.state = state, !.out = out]]

ChatTurn(g, n, q, env) ==
    LET out == g.sessions[n].out
    IN  IF g.sessions[n].abort THEN Say(g, 409, "session_aborted")
        ELSE CASE env.turn = "ok" -> Say(SessionEnds(g, n, "idle", q.body), 200, q.body)
               [] env.turn = "cancelled" ->
                    Say(SessionEnds(g, n, "aborted", out), 499, "chat_failed")
               [] env.turn = "failed" -> Say(SessionEnds(g, n, "idle", out), 500, "chat_failed")

ChatSession(q) == IF q.sid = Empty THEN "default" ELSE q.sid

HandleChat(g, q, env) ==
    LET h == WithSession(g, ChatSession(q))
    IN  ChatTurn(h, SessionOf(h, ChatSession(q)), q, env)

\* handle_acp_route.
HandleAcp(g, q, env) ==
    LET r == AcpHandleLine(g.acp, q.line, clock, TRUE, env.acp)
    IN  Out([g EXCEPT !.acp = r.acp], 200, <<ToString(r.code)>> \o r.updates)

\* event_visible_to_session.
EventVisible(e, sid) == sid = Empty \/ e.sid = Empty \/ e.sid = sid

\* handle_sse.
HandleSse(g, q) ==
    LET seen == SelectSeq(g.events, LAMBDA e : EventVisible(e, q.sid))
    IN  Out(g, 200, [i \in DOMAIN seen |-> seen[i].name])

\* handle_sessions.
HandleSessions(g) == Out(g, 200, [i \in DOMAIN g.sessions |-> g.sessions[i].id])

\* handle_abort: the body names the session when the header does not.
HandleAbort(g, q) ==
    LET id == IF q.sid = Empty THEN q.body ELSE q.sid
    IN  IF id \in SessionIds(g) THEN Say(SessionAbort(g, id), 200, "aborted")
        ELSE Say(g, 404, "session_not_found")

\* handle_disconnect.
HandleDisconnect(g, q) ==
    LET id == IF q.sid = Empty THEN q.body ELSE q.sid
    IN  IF id \in SessionIds(g) THEN Say(SessionRemove(g, id), 200, "disconnected")
        ELSE Say(g, 404, "session_not_found")

\* handle_config_get.
HandleConfigGet(g, q) ==
    IF q.body = "known" THEN Say(g, 200, g.cfg) ELSE Say(g, 404, "config_path_not_found")

\* handle_config_set: a body that is no assignment, and one the configuration
\* rejects, are client errors; the value is set in memory only.
HandleConfigSet(g, q, env) ==
    IF q.body = "malformed" \/ env.rejects THEN Say(g, 400, "rejected")
    ELSE Say([g EXCEPT !.cfg = q.body], 200, "updated")

\* static_relative_path_safe, on the path's segments: no empty one, no dots, no
\* encoded dot or separator and no backslash.
StaticSafe(segments) ==
    segments # <<>>
    /\ \A i \in DOMAIN segments : segments[i] \notin {Empty, ".", "..", "%2e", "\\"}

\* static_open_file: each segment is opened below the one before it, as a directory
\* unless it is the last, and no link is followed; `kinds` is what is found there.
StaticOpen(kinds) ==
    LET n == Len(kinds)
        bad == {i \in 1..n : kinds[i] \in {"link", "missing"} \/ (i < n /\ kinds[i] = "file")}
        first == CHOOSE i \in bad : \A j \in bad : i <= j
    IN  IF bad = {} THEN (IF kinds[n] \in {"file", "large"} THEN "ok" ELSE "denied")
        ELSE IF kinds[first] = "missing" THEN "io" ELSE "denied"

\* handle_static with static_read_fd: an unsafe path is refused before anything is
\* opened, what is not found or not read is 404, and a file over the body limit is
\* an error of the request.
HandleStatic(g, q, env) ==
    LET opened == StaticOpen(env.kinds)
    IN  IF ~StaticSafe(q.segments) \/ opened = "denied" THEN Say(g, 403, "forbidden")
        ELSE IF opened = "io" THEN Say(g, 404, "not_found")
        ELSE IF env.kinds[Len(env.kinds)] = "large" THEN Say(g, 0, "response_too_large")
        ELSE Say(g, 200, "contents")

\* The handlers behind the routes, but for /jsonrpc.
PlainHandler(g, q, env) ==
    CASE q.path = "/status" -> Say(g, 200, IF g.running THEN "running" ELSE "stopped")
      [] q.path = "/health" -> Say(g, 200, "ok")
      [] q.path = "/pair" -> HandlePair(g, q)
      [] q.path = "/ws/chat" -> HandleChat(g, q, env)
      [] q.path = "/acp" -> HandleAcp(g, q, env)
      [] q.path = "/sse/events" -> HandleSse(g, q)
      [] q.path = "/sessions" -> HandleSessions(g)
      [] q.path = "/sessions/abort" -> HandleAbort(g, q)
      [] q.path = "/sessions/disconnect" -> HandleDisconnect(g, q)
      [] q.path = "/config/get" -> HandleConfigGet(g, q)
      [] q.path = "/config/set" -> HandleConfigSet(g, q, env)
      [] q.path = "/static/*" -> HandleStatic(g, q, env)

-----------------------------------------------------------------------------
(* Requests. *)

\* Mutant: the search skips the first entry.
IdempotencyFindRest(g, key) ==
    IF g.idem = <<>> THEN 0 ELSE SelectInSeq(<<[key |-> Empty]>> \o Tail(g.idem), LAMBDA e : e.key = key)

\* idempotency_find: the first entry of the key, whatever the request is.
IdempotencyFind(g, key) == SelectInSeq(g.idem, LAMBDA e : e.key = key)

\* idempotency_store: the cache only grows.
IdempotencyStore(g, key, o) ==
    [g EXCEPT !.idem = Append(@, [key |-> key, code |-> o.code, body |-> o.body])]

Succeeded(o) == o.code >= 200 /\ o.code < 300

\* What sc_gateway_handle_request does after its handler: a success under a key is
\* remembered, and failing to remember it makes the request fail after its effect.
Remembered(q, o, env) ==
    IF ~(Keyed(q) /\ Succeeded(o)) THEN o
    ELSE IF env.full THEN [o EXCEPT !.code = 0, !.body = "no_memory"]
    ELSE [o EXCEPT !.g = IdempotencyStore(o.g, q.key, o)]

Acknowledged(q, o) ==
    IF Keyed(q) /\ Succeeded(o) THEN [o EXCEPT !.acks = @ \cup {q.key}]
    ELSE o

\* What sc_gateway_handle_request does before its handler: the route, the gates and
\* the cache.  The outcome has code 0 when the handler is to run.
BeforeHandler(g, q) ==
    IF RouteFor(q) = {}
    THEN Say(g, IF RoutesOf(q) = {} THEN 404 ELSE 405, "no_route")
    ELSE LET gate == EnforceGates(g, CHOOSE r \in RouteFor(q) : TRUE, q)
             hit == IdempotencyFind(gate.g, q.key)
         IN  IF gate.code = 0 /\ Keyed(q) /\ hit # 0
             THEN Out(gate.g, gate.g.idem[hit].code, gate.g.idem[hit].body)
             ELSE gate

\* And after it, with the handler's outcome o.
AfterHandler(q, o, env) ==
    Acknowledged(q, Remembered(q, [o EXCEPT !.ran = <<q>> \o @], env))

\* sc_gateway_handle_request for a request that is no JSON-RPC call.
HandlePlain(g, q, env) ==
    LET before == BeforeHandler(g, q)
    IN  IF before.code # 0 THEN before
        ELSE AfterHandler(q, PlainHandler(before.g, q, env), env)

\* jsonrpc_handle_method: the call's parameters make a second request, which passes
\* the gates again; an error of it is a result of the JSON-RPC call.
JsonrpcMethod(g, q, env) ==
    IF q.rpc = "ping" THEN Say(g, 200, "pong")
    ELSE IF q.rpc = "unknown" THEN Say(g, 200, "-32601")
    ELSE LET o == HandlePlain(g, q.inner[1], env)
         IN  IF o.code = 0 THEN o
             ELSE [o EXCEPT !.code = 200, !.body = <<ToString(o.code)>> \o @]

\* sc_gateway_jsonrpc_handle behind handle_jsonrpc_route: what cannot be parsed and
\* what is no call is answered with an error object, and status 200.
HandleJsonrpc(g, q, env) ==
    CASE q.body = "garbage" -> Say(g, 200, "-32700")
      [] q.body = "no_call" -> Say(g, 200, "-32600")
      [] OTHER -> JsonrpcMethod(g, q, env)

\* sc_gateway_handle_request.
HandleRequest(g, q, env) ==
    LET before == BeforeHandler(g, q)
    IN  IF q.path # "/jsonrpc" THEN HandlePlain(g, q, env)
        ELSE IF before.code # 0 THEN before
        ELSE AfterHandler(q, HandleJsonrpc(before.g, q, env), env)

-----------------------------------------------------------------------------
(* The specification.  acked: the keys under which a mutation was answered with a
   success; runs: the handler runs, in order; emitted: all
   events an observer emitted. *)

Apply(o) ==
    /\ gw' = o.g
    /\ runs' = runs \o [i \in DOMAIN o.ran |-> [path |-> o.ran[i].path, key |-> KeyOf(o.ran[i]),
                                                 paired |-> gw.used # o.g.used]]
    /\ acked' = acked \cup o.acks

\* The bounds on what the clients and the observer do.
MayRequest == Len(runs) < MaxRequests /\ Len(runs) + Len(emitted) < MaxWork
MayEmit == Len(emitted) < MaxEmits /\ Len(runs) + Len(emitted) < MaxWork

GatewayInit ==
    /\ gw = NewServer
    /\ clock = PairCreated
    /\ conns = [c \in Clients |-> "none"]
    /\ acked = {} /\ runs = <<>> /\ emitted = <<>> /\ starts = 0

\* sc_gateway_server_start: the listener first, then the server runs; without a
\* listener it runs at once.
Start ==
    /\ starts < MaxStarts
    /\ \E listener \in {"off", "on", "fails"} :
        gw' = CASE listener = "fails" /\ ~gw.listening -> gw
                [] listener = "on" \/ gw.listening ->
                    [gw EXCEPT !.listening = TRUE, !.running = TRUE]
                [] OTHER -> [gw EXCEPT !.running = TRUE]
    /\ starts' = starts + 1
    /\ UNCHANGED <<clock, conns, acked, runs, emitted>>

\* A request of a caller inside the process.
Request ==
    /\ MayRequest
    /\ \E q \in Requests, env \in Envs : Apply(HandleRequest(gw, q, env))
    /\ UNCHANGED <<clock, conns, emitted, starts>>

\* sc_gateway_websocket_receive_text: a disconnect text only removes the session;
\* any other is counted in the queue while its request is handled.
WebsocketText ==
    /\ MayRequest
    /\ \E q \in Requests, env \in Envs :
        /\ q.path = IF q.sid = "acp" THEN "/acp" ELSE "/ws/chat"
        /\ IF q.body = "[disconnect]"
           THEN gw' = SessionRemove(gw, q.sid) /\ UNCHANGED <<acked, runs>>
           ELSE /\ q.size < 2
                /\ gw.wsq < MaxWsQueued
                /\ LET o == HandleRequest([gw EXCEPT !.wsq = @ + 1], [q EXCEPT !.key = Empty], env)
                   IN  Apply([o EXCEPT !.g.wsq = @ - 1])
    /\ UNCHANGED <<clock, conns, emitted, starts>>

\* gateway_observer_emit and gateway_events_push: the oldest events give way.
Emit ==
    /\ MayEmit
    /\ \E e \in Events :
        /\ emitted' = Append(emitted, e)
        /\ gw' = [gw EXCEPT !.events =
                    IF Len(@) >= MaxSse THEN Append(SubSeq(@, Len(@) - MaxSse + 2, Len(@)), e)
                    ELSE Append(@, e)]
    /\ UNCHANGED <<clock, conns, acked, runs, starts>>

(* The listener.  A connection is "none", "reading" (its request is not complete),
   "writing" (the response is with libuv, and the handle still reads), "rewriting"
   (with a second response behind it), "closing" (uv_close was called once, its
   callback is due), "cancelled" (closing, with a write that is called back before),
   "closed", or "broken": uv_close was called on a handle that was already closing. *)

\* gateway_on_connection.
Connect(c) ==
    /\ gw.listening /\ conns[c] = "none"
    /\ conns' = [conns EXCEPT ![c] = "reading"]
    /\ UNCHANGED <<gw, clock, acked, runs, emitted, starts>>

\* gateway_http_request_complete: what the bytes so far amount to.
RequestComplete(raw) == raw \in {"unparsable", "request"}
RequestInvalid(raw) == raw = "bad_length"

\* uv_close of a connection: a pending write is cancelled into gateway_write_cb.
UvClose(conn) ==
    CASE conn = "reading" -> "closing"
      [] conn \in {"writing", "rewriting"} -> "cancelled"
      [] OTHER -> "broken"

\* gateway_read_cb.  The end of the stream, too many bytes and a request that can
\* never be complete close the connection; an incomplete one waits for more, for
\* ever if need be.  A complete one is handled (one that cannot be parsed is
\* answered with an error) and its response is written, or the write fails and the
\* connection is closed.  The connection goes on reading while a write is pending,
\* so more data handles the request again and queues another response.
ReadCb(c) ==
    /\ gw.listening /\ conns[c] \in {"reading", "writing", "rewriting"} /\ MayRequest
    /\ \E raw \in {"eof", "too_large", "bad_length", "partial", "unparsable", "request"} :
        \/ /\ raw \in {"eof", "too_large"} \/ RequestInvalid(raw)
           /\ conns' = [conns EXCEPT ![c] = UvClose(@)]
           /\ UNCHANGED <<gw, acked, runs>>
        \/ /\ RequestComplete(raw)
           /\ IF raw = "unparsable" THEN UNCHANGED <<gw, acked, runs>>
              ELSE \E q \in Requests, env \in Envs : Apply(HandleRequest(gw, q, env))
           /\ \/ conns' = [conns EXCEPT ![c] = IF @ = "reading" THEN "writing" ELSE "rewriting"]
              \/ conns' = [conns EXCEPT ![c] = UvClose(@)]
    /\ UNCHANGED <<clock, emitted, starts>>

\* gateway_write_cb closes the connection: when its response is out, when a response
\* behind it is then cancelled, and when the handle is closing already.
WriteDone(c) ==
    /\ conns[c] \in {"writing", "rewriting", "cancelled"}
    /\ conns' = [conns EXCEPT ![c] = IF @ = "writing" THEN "closing" ELSE UvClose(@)]
    /\ UNCHANGED <<gw, clock, acked, runs, emitted, starts>>

\* gateway_client_close_cb.
CloseDone(c) ==
    /\ conns[c] = "closing"
    /\ conns' = [conns EXCEPT ![c] = "closed"]
    /\ UNCHANGED <<gw, clock, acked, runs, emitted, starts>>

\* sc_gateway_server_stop with gateway_listener_stop: every handle that is not
\* closing is closed, and the loop runs until all are; a pending write is cancelled
\* into gateway_write_cb.
Stop ==
    /\ gw.running
    /\ gw' = [gw EXCEPT !.running = FALSE, !.listening = FALSE]
    /\ conns' = [c \in Clients |->
                    CASE conns[c] \in {"reading", "closing"} -> "closed"
                      [] conns[c] \in {"writing", "rewriting", "cancelled"} -> "broken"
                      [] OTHER -> conns[c]]
    /\ UNCHANGED <<clock, acked, runs, emitted, starts>>

\* The wall clock, which may also go back.
Tick ==
    /\ \E t \in Times \ {clock} : clock' = t
    /\ UNCHANGED <<gw, conns, acked, runs, emitted, starts>>

\* uv_run aborts the process in a broken state: nothing happens any more.
Broken == \E c \in Clients : conns[c] = "broken"

GatewayNext ==
    /\ ~Broken
    /\ \/ Start \/ Request \/ WebsocketText \/ Emit \/ Stop \/ Tick
       \/ \E c \in Clients :
            Connect(c) \/ ReadCb(c) \/ WriteDone(c) \/ CloseDone(c)

GatewaySpec == GatewayInit /\ [][GatewayNext]_gatewayVars

-----------------------------------------------------------------------------
(* Properties. *)

SessionStates == {"idle", "aborted"}

\* Types of the server's state between two requests; in particular no session is
\* left running and nothing is left in the WebSocket queue by any path through a
\* handler.
TypeOK ==
    /\ gw.running \in BOOLEAN /\ gw.listening \in BOOLEAN /\ gw.used \in BOOLEAN
    /\ gw.reqN \in 0..RateLimit /\ gw.pairN \in 0..PairLimit
    /\ gw.wsq = 0
    /\ \A i \in DOMAIN gw.sessions : gw.sessions[i].state \in SessionStates
    /\ \A i, j \in DOMAIN gw.sessions : i # j => gw.sessions[i].id # gw.sessions[j].id
    /\ clock \in Times

\* sc_gateway_handle_request with its idempotency cache: once a mutation was
\* answered with a success under a key, no mutation runs under that key again,
\* through HTTP, JSON-RPC or inside a JSON-RPC call.
AckedRunsOnce ==
    [][\A i \in Len(runs) + 1..Len(runs') : runs'[i].key \notin acked]_gatewayVars

\* handle_pair: the pairing code is good for one success in the server's life, and
\* the token it hands out, or the configured one, never changes afterwards.
PairedOnce ==
    /\ Cardinality({i \in DOMAIN runs : runs[i].path = "/pair" /\ runs[i].paired}) <= 1
    /\ gw.used => gw.token = (IF InitialToken = NoToken THEN "generated" ELSE InitialToken)

\* gateway_events_push: the ring holds exactly the newest events, in their order.
EventsAreNewest ==
    gw.events = SubSeq(emitted, IF Len(emitted) > MaxSse THEN Len(emitted) - MaxSse + 1 ELSE 1,
                       Len(emitted))

\* What the server keeps between requests is sound: types, the one pairing and the
\* ring of the newest events (sc_gateway_handle_request, handle_pair,
\* gateway_events_push).
ServerSound == TypeOK /\ PairedOnce /\ EventsAreNewest
=============================================================================
