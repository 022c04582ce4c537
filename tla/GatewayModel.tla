---------------------------- MODULE GatewayModel ----------------------------
(* Instances of Gateway for TLC. *)
EXTENDS Gateway

NoLine == [method |-> "none", id |-> 0, prompt |-> FALSE]

Req(path, method, body, tok, key, sid) ==
    [path |-> path, method |-> method, body |-> body, tok |-> tok, key |-> key, sid |-> sid,
     size |-> 0, origin |-> "", rpc |-> "ping", inner |-> <<>>, segments |-> <<"a", "b">>, line |-> NoLine]

Post(path, body, key, sid) == Req(path, "POST", body, "generated", key, sid)
Get(path, body, sid) == Req(path, "GET", body, "generated", "", sid)
Rpc(key, inner) ==
    [Post("/jsonrpc", "call", key, "") EXCEPT !.rpc = "call", !.inner = <<inner>>]
AcpLine(method, id) ==
    [Post("/acp", "line", "", "acp") EXCEPT
        !.line = [method |-> method, id |-> id, prompt |-> TRUE]]

\* Mutations, with the keys k and l.
Mutations ==
    {Post("/config/set", "v1", "k", ""), Post("/config/set", "v2", "l", ""),
     Post("/config/set", "malformed", "k", ""), Post("/config/set", "v2", "", ""),
     Post("/pair", "code", "", ""), Post("/pair", "wrong", "", ""),
     Rpc("l", Post("/config/set", "v2", "k", "")), Rpc("", Post("/ws/chat", "hi", "k", "s")),
     [Post("/config/set", "v1", "k", "") EXCEPT !.size = 1]}

\* Chats and what acts on sessions.
Sessions ==
    {Post("/pair", "code", "", ""), Post("/ws/chat", "hi", "", "s"), Post("/ws/chat", "hi", "", ""),
     Post("/sessions/abort", "", "k", "s"), Post("/sessions/abort", "s", "l", ""),
     Post("/sessions/disconnect", "", "m", "s"), Post("/ws/chat", "[disconnect]", "", "s"),
     [Post("/ws/chat", "hi", "", "s") EXCEPT !.size = 2],
     AcpLine("session/new", 0), AcpLine("session/prompt", 1), AcpLine("session/stop", 1),
     AcpLine("initialize", 0), AcpLine("other", 0)}

\* What only reads.
Reads ==
    {Get("/status", "", ""), [Get("/sessions", "", "") EXCEPT !.key = "k"], Get("/health", "", ""), Get("/sessions", "", ""),
     Get("/sse/events", "", "s"), Get("/config/get", "known", ""),
     Get("/config/get", "unknown", ""), Get("/static/*", "", ""),
     [Get("/static/*", "", "") EXCEPT !.segments = <<"a", "..">>], Get("/nowhere", "", ""), Get("/pair", "", ""),
     [Post("/jsonrpc", "call", "", "") EXCEPT !.rpc = "unknown"], Post("/jsonrpc", "call", "", ""), Post("/jsonrpc", "garbage", "", ""), Post("/jsonrpc", "no_call", "", "")}

Result(status, events, output) == [status |-> status, events |-> events, output |-> output]

Env(turn, full, rejects, kinds, acp) ==
    [turn |-> turn, full |-> full, rejects |-> rejects, kinds |-> kinds, acp |-> acp]

Streamed == Result("ok", <<"provider_called", "text_delta">>, TRUE)

AllEnvs ==
    {Env("ok", FALSE, FALSE, <<"dir", "file">>, Streamed), Env("failed", TRUE, FALSE, <<"dir", "missing">>, Streamed),
     Env("cancelled", FALSE, TRUE, <<"file", "file">>,
         Result("cancelled", <<"tool_called", "approval_required">>, FALSE)),
     Env("ok", FALSE, FALSE, <<"dir", "large">>, Result("failed", <<>>, FALSE))}

AllRequests == Mutations \cup Sessions \cup Reads
AllEvents == {[name |-> "a", sid |-> ""], [name |-> "b", sid |-> "s"]}
=============================================================================
