---------------------------- MODULE RemoteModel -----------------------------
(* The instance of RemoteTools that TLC checks.                            *)
EXTENDS RemoteTools

McpServer(transport) ==
    [name |-> "m", transport |-> transport, target |-> "t", command |-> "c", args |-> "array", url |-> "u",
     urlAllowed |-> TRUE, headers |-> "array"]
MCServers == {McpServer("stdio"), [McpServer("sse") EXCEPT !.headers = "none"],
              [McpServer("stdio") EXCEPT !.args = "mixed", !.target = ""]}
McpAsk == [tool |-> "t", args |-> "object", cancelled |-> FALSE, forbidden |-> {}, ask |-> {"side_effect"},
           granted |-> TRUE]
MCMcpCalls == {McpAsk, [McpAsk EXCEPT !.args = "list"], [McpAsk EXCEPT !.granted = FALSE]}

Get == [tool |-> "http", method |-> "GET", url |-> "u", headers |-> "none", query |-> "", provider |-> "",
        env |-> <<>>, cancelled |-> "no", forbidden |-> {"destructive"},
        ask |-> {"network"}, granted |-> FALSE]
Search(provider, env) == [Get EXCEPT !.tool = "web_search", !.query = "q", !.provider = provider, !.env = env]
MCHttpCalls ==
    { Get, [Get EXCEPT !.headers = "odd"], [Get EXCEPT !.method = "DELETE"], [Get EXCEPT !.method = "POST"], [Get EXCEPT !.cancelled = "call"], Search("fake", <<>>),
      Search("google_cse", <<"set", "unset">>), [Search("serper", <<"set">>) EXCEPT !.cancelled = "call"],
      [Search("brave", <<"set">>) EXCEPT !.cancelled = "context"] }
Reply(curl, code, size) == [curl |-> curl, code |-> code, size |-> size]
MCReplies == {Reply("ok", 200, 1), Reply("ok", 404, 1), Reply("timeout", 0, 0), Reply("ok", 200, 9)}

MCRemoteBudgets ==
    { [calls |-> 1, writes |-> 3, faults |-> 0, http |-> 0], [calls |-> 1, writes |-> 2, faults |-> 1, http |-> 0],
      [calls |-> 2, writes |-> 2, faults |-> 0, http |-> 0],
      [calls |-> 0, writes |-> 0, faults |-> 0, http |-> 2] }
=============================================================================
