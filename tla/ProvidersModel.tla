---------------------------- MODULE ProvidersModel ----------------------------
(* Instances of Providers: every kind of provider alone or composed, and a server
   that answers well, refuses, fails, times out or sends a broken stream. *)
EXTENDS Providers

Url(scheme, host, path) == [scheme |-> scheme, host |-> host, path |-> path]
NoUrl == Url("", "", "")
MCPresets == [groq |-> [base |-> Url("https", "api", "v1"), env |-> "GROQ_KEY"]]
MCAddresses == [api |-> <<8, 8>>, loopback |-> <<127, 0>>, anthropic |-> <<9, 9>>, gemini |-> <<9, 8>>,
                ollama |-> <<9, 7>>, bedrock |-> <<9, 6>>]
MCEnv == [GROQ_KEY |-> "key", GENERIC |-> "generic", metadata |-> {"imds"}, imdsDisabled |-> FALSE,
          credentials |-> [none |-> ""], config |-> [none |-> ""]]

Options ==
    [kind |-> "compatible", preset |-> "", name |-> "", base |-> NoUrl, key |-> "", secret |-> "", env |-> "",
     genericEnv |-> "", model |-> "m", retries |-> 1, loopback |-> FALSE, deployment |-> "", version |-> "",
     raw |-> "", sampling |-> <<>>, think |-> "", thinking |-> "default", effort |-> "", format |-> "",
     merge |-> FALSE, safety |-> ""]
Preset == [Options EXCEPT !.preset = "preset", !.name = "groq"]
Local == [Options EXCEPT !.preset = "local", !.name = "vllm"]
Azure == [Options EXCEPT !.preset = "azure", !.base = Url("https", "api", ""), !.deployment = "d"]
Plain == [Options EXCEPT !.name = "plain", !.base = Url("http", "api", "")]
Anthropic == [Options EXCEPT !.kind = "anthropic", !.key = "k"]
Gemini == [Options EXCEPT !.kind = "gemini", !.genericEnv = "GENERIC", !.merge = TRUE, !.raw = "{}"]
Broken == [Gemini EXCEPT !.raw = "not json"]
Ollama == [Options EXCEPT !.kind = "ollama", !.loopback = TRUE, !.thinking = "disabled"]
Bedrock == [Options EXCEPT !.kind = "bedrock", !.retries = 0]
Claude == [Options EXCEPT !.kind = "claude_code", !.name = "claude", !.base = Url("stdio", "", "")]
NoServer == [Options EXCEPT !.kind = "claude_code"]
Cli == [Options EXCEPT !.kind = "gemini_cli", !.name = "cli"]

Setup(shape, options, routes) == [shape |-> shape, options |-> options, routes |-> routes]
MCSetups ==
    {Setup("single", <<o>>, <<>>) : o \in {Preset, Azure, Plain, Anthropic, Gemini, Ollama, Bedrock, Broken, NoServer}}
    \cup {Setup("reliable", <<Anthropic, Bedrock>>, <<>>), Setup("reliable", <<Preset, Gemini>>, <<>>),
          Setup("router", <<Local, Claude, Cli>>, <<[hint |-> "tools", to |-> 2], [hint |-> "code", to |-> 3]>>)}

Ask == [model |-> "", prompt |-> "p", system |-> "", context |-> "", media |-> <<>>, tools |-> <<>>,
        text |-> "", hint |-> {}, aboutTools |-> FALSE, named |-> {}, cancel |-> FALSE]
MCPrompts ==
    {Ask, [Ask EXCEPT !.cancel = TRUE], [Ask EXCEPT !.hint = {"code"}, !.system = "s"],
     [Ask EXCEPT !.aboutTools = TRUE, !.tools = <<"t">>], [Ask EXCEPT !.named = {"gemini"}, !.media = <<"bytes">>]}

Doc(text, tokens, finish) ==
    [json |-> TRUE, error |-> FALSE, done |-> FALSE, parts |-> TRUE, content |-> TRUE, text |-> text, reasoning |-> "",
     calls |-> <<>>, tokens |-> tokens, finish |-> finish, search |-> "", callback |-> "ok"]
NotJson == [json |-> FALSE, done |-> FALSE, none |-> FALSE]
MCDocs == (<<"a">> :> Doc("a", 0, "")) @@ (<<"b">> :> [Doc("", 0, "") EXCEPT !.content = FALSE, !.calls = <<[name |-> "t", args |-> "{}"]>>])
          @@ (<<"c">> :> [Doc("c", 0, "") EXCEPT !.callback = "cancelled"])
          @@ (<<"a", "b">> :> Doc("ab", 1, "")) @@ (<<"d">> :> [Doc("", 0, "stop") EXCEPT !.done = TRUE])

Answer(curl, code, large, doc, body) == [curl |-> curl, code |-> code, large |-> large, doc |-> doc, body |-> body]
MCAnswers ==
    {Answer("ok", 200, FALSE, Doc("a", 1, "stop"), body) :
        body \in {<<"a", "n", "n", "b", "n", "n", "d", "n", "n">>, <<"a", "n", "b", "n", "d">>, <<"a", "b", "n", "n", "c", "n", "n">>,
                  <<"a", "n", "n", "n">>, <<"a", "r", "n", "x", "n", "n">>}}
    \cup {Answer("ok", 401, FALSE, NotJson, <<"x">>), Answer("ok", 503, FALSE, NotJson, <<>>),
          Answer("timeout", 0, FALSE, NotJson, <<"a", "n", "n">>), Answer("ok", 200, TRUE, NotJson, <<"a">>)}
WithInvalid == MCAnswers \cup {Answer("ok", 400, FALSE, NotJson, <<>>)}
MCResults == {[st |-> "ok", doc |-> Doc("a", 0, "")], [st |-> "ok", doc |-> NotJson], [st |-> "timeout", doc |-> NotJson]}
=============================================================================
