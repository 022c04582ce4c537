---------------------------- MODULE ProviderWire ----------------------------
(* What the providers (src/providers) write to and read from the wire: request
   bodies, URLs, credentials and headers, responses, stream events, and the
   parsers that cut a byte stream into events.  All of it is constant-level.

   A provider is a record p of its options, a request a record q; texts are model
   strings, "" when absent.  A JSON document d is a record of what the parsers look
   at; [json |-> FALSE] is one that does not parse.  A result is a status ("ok" or
   the code of the error) with what was produced. *)
EXTENDS Naturals, Sequences, SequencesExt

HttpKinds == {"anthropic", "gemini", "ollama", "bedrock"}
ProcessKinds == {"claude_code", "gemini_cli"}

Done(x) == [st |-> "ok", val |-> x]
Fail(code) == [st |-> code, val |-> <<>>]

-----------------------------------------------------------------------------
(* Options. *)

\* sc_provider_url_allowed: https, or http to the host itself where that is allowed.
UrlAllowed(url, loopback) ==
    url.scheme = "https" \/ (loopback /\ url.scheme = "http" /\ url.host = "loopback")

\* http_provider_new, after the kind's default name and URL.
HttpProviderNew(p) ==
    LET def == IF p.kind = "ollama" THEN [scheme |-> "http", host |-> "loopback", path |-> "api/chat"]
               ELSE [scheme |-> "https", host |-> p.kind, path |-> ""]
        url == IF p.base.scheme = "" THEN def ELSE p.base
    IN  IF ~UrlAllowed(url, p.kind = "ollama") THEN Fail("security_denied")
        ELSE Done([p EXCEPT !.base = url,
                            !.name = IF p.name = "" THEN p.kind ELSE p.name])

\* compatible_preset_base_url, compatible_preset_env: the URL and the credential
\* variable of a preset, kept when the options name their own.
PresetNew(p, presets) ==
    LET url == IF p.base.scheme # "" \/ p.name \notin DOMAIN presets THEN p.base
               ELSE presets[p.name].base
        env == IF p.env # "" \/ p.name \notin DOMAIN presets THEN p.env ELSE presets[p.name].env
    IN  IF p.name = "" \/ url.scheme = "" THEN Fail("invalid_argument")
        ELSE Done([p EXCEPT !.base = url, !.env = env])

\* llamacpp, sglang and vllm: a server on this host.
LocalNew(p, name) ==
    [p EXCEPT !.name = name, !.loopback = TRUE,
              !.base = IF @.scheme = "" THEN [scheme |-> "http", host |-> "loopback", path |-> "v1"] ELSE @]

\* sc_provider_azure_openai_new, build_azure_openai_url.
AzureNew(p) ==
    IF p.deployment = "" \/ p.version = "" \/ p.base.scheme = "" THEN Fail("invalid_argument")
    ELSE Done([p EXCEPT !.name = "azure-openai", !.base.path = "deployment/chat/completions"])

\* sc_provider_openai_compatible_new: a URL, if there is one, must be allowed.
\* normalize_openai_chat_url: a version and the endpoint are added once.
NormalizeUrl(url) ==
    CASE url.scheme = "" -> url
      [] url.path \in {"chat/completions", "deployment/chat/completions"} -> url
      [] url.path = "v1" -> [url EXCEPT !.path = "v1/chat/completions"]
      [] OTHER -> [url EXCEPT !.path = "v1/chat/completions"]

\* sc_provider_resolve_credential: the key, the secret, the provider's variable, the
\* generic variable.
ResolveCredential(p, env) ==
    LET named == {v \in {p.env, p.genericEnv} : v # "" /\ v \in DOMAIN env}
    IN  CASE p.key # "" -> Done(p.key)
          [] p.key = "" /\ p.secret # "" -> Done(p.secret)
          [] p.key = "" /\ p.secret = "" /\ p.env \in named -> Done(env[p.env])
          [] p.key = "" /\ p.secret = "" /\ p.env \notin named /\ p.genericEnv \in named -> Done(env[p.genericEnv])
          [] OTHER -> Fail("security_denied")

\* bedrock_metadata_url_allowed: the two link-local services; a full URI may name
\* this host.
MetadataUrlAllowed(url, full) == url \in {"ecs", "imds"} \/ (full /\ url = "loopback")

\* bedrock_resolve_from_metadata: the container's URI if one is set, else the
\* instance's role in three fetches.  A URI that is not allowed, and a disabled
\* instance service, are reported as such.
\* bedrock_fetch_metadata_json, bedrock_parse_metadata_credentials.
FetchMetadata(env, url) == IF url \in env.metadata THEN Done("metadata key") ELSE Fail("io")
MetadataCredentials(env) ==
    LET uri(v) == IF v \in DOMAIN env THEN env[v] ELSE ""
        full == uri("relative") = ""
        url == IF full THEN uri("full") ELSE uri("relative")
    IN  IF url # ""
        THEN IF MetadataUrlAllowed(url, full) THEN FetchMetadata(env, url) ELSE Fail("url_denied")
        ELSE IF env.imdsDisabled THEN Fail("imds_disabled") ELSE FetchMetadata(env, "imds")

\* bedrock_copy_profile_value: each part from the credentials file before the
\* configuration file.
ProfileValue(env, k) ==
    IF k \in DOMAIN env.credentials THEN env.credentials[k]
    ELSE IF k \in DOMAIN env.config THEN env.config[k] ELSE ""
ProfileCredentials(env) ==
    IF ProfileValue(env, "id") = "" \/ ProfileValue(env, "secret") = "" THEN Fail("security_denied")
    ELSE Done(ProfileValue(env, "id"))

\* sc_provider_bedrock_resolve_credentials: options, environment, files, metadata.
BedrockCredentials(p, env) ==
    LET variables == IF {"AWS_ID", "AWS_SECRET"} \subseteq DOMAIN env THEN Done(env["AWS_ID"]) ELSE Fail("security_denied")
        meta == MetadataCredentials(env)
    IN  CASE p.key # "" /\ p.secret # "" -> Done(p.key)
          [] (p.key = "") # (p.secret = "") -> Fail("security_denied")
          [] OTHER -> IF variables.st = "ok" THEN variables
                      ELSE IF ProfileCredentials(env).st = "ok" THEN ProfileCredentials(env)
                      ELSE IF meta.st = "ok" THEN meta ELSE Fail("security_denied")

-----------------------------------------------------------------------------
(* Requests. *)

\* The modes in the providers' tables.
TakesTools(kind) == kind \in {"compatible", "anthropic", "gemini", "ollama"}
TakesMedia(kind) == kind \in {"anthropic", "gemini"}

\* model_or_default, options_model.
ModelOf(p, q) == IF q.model # "" THEN q.model ELSE p.model

\* sc_provider_validate_request: the texts' sizes and encoding, the model's
\* characters, then what the provider's modes allow.
ValidateRequest(p, q) ==
    CASE q.text = "too long" -> "invalid_argument"
      [] q.text = "not utf8" -> "parse"
      [] ModelOf(p, q) = "bad model" -> "invalid_argument"
      [] OTHER -> IF q.tools # <<>> /\ ~TakesTools(p.kind) THEN "unsupported"
                  ELSE IF q.tools = <<"not an array">> THEN "parse"
                  ELSE IF q.media # <<>> /\ ~TakesMedia(p.kind) THEN "unsupported"
                  ELSE "ok"

\* add_anthropic_tools, add_gemini_tools: the specs that have a function, in the
\* kind's own form; ollama is sent the specs as they are.
FunctionsOf(q) == SelectSeq(q.tools, LAMBDA t : t # "no function")
GeminiTools(q) == IF FunctionsOf(q) = <<>> THEN <<>> ELSE <<FunctionsOf(q)>>
OllamaTools(q) == q.tools

\* append_gemini_media_part: bytes become data, any other attachment a line of
\* text, and a redacted one nothing.
GeminiMedia(q) ==
    LET shown == SelectSeq(q.media, LAMBDA m : m # "redacted")
    IN  [i \in DOMAIN shown |-> IF shown[i] = "bytes" THEN "data" ELSE "line"]

\* append_gemini_text_part, for each text there is.
GeminiText(q) == SelectSeq(<<q.prompt, q.context>>, LAMBDA t : t # "")

\* add_gemini_system_instruction: left out with merge_system_into_user, and nothing
\* puts it into the prompt.
GeminiSystem(p, q) == IF p.merge THEN "" ELSE q.system

\* add_gemini_generation_config, add_ollama_options: the configured object, or the
\* sampling options that are set.
Sampling(p) == IF p.raw # "" THEN <<p.raw>> ELSE p.sampling
OllamaOptions(p) == Sampling(p)

\* add_ollama_format: "json" or a schema.
OllamaFormat(p) == p.format

\* add_ollama_reasoning_controls.
Thinking(p) ==
    [think |-> IF p.think # "" THEN p.think ELSE IF p.thinking = "disabled" THEN "false" ELSE "",
     effort |-> IF p.effort # "" THEN p.effort
                ELSE CASE p.thinking = "disabled" -> "none" [] p.thinking = "default" -> "" [] OTHER -> p.thinking]

Body(messages, system, tools, extra) ==
    Done([messages |-> messages, system |-> system, tools |-> tools, extra |-> extra])

\* A system instruction as a message in front of the user's.
AsMessage(role, text) == IF text = "" THEN <<>> ELSE <<[role |-> role, text |-> <<text>>]>>

\* sc_provider_openai_build_request.
OpenAiBody(p, q, streaming) ==
    Body(AsMessage("system", q.system) \o <<[role |-> "user", text |-> <<q.prompt>>]>>, "", q.tools,
         <<Thinking(p).effort, p.format>> \o IF streaming THEN <<"stream", "include_usage">> ELSE <<>>)

\* sc_provider_anthropic_build_request: 1024 tokens, the prompt and the tools; the
\* system instruction is not sent.
AnthropicBody(p, q, streaming) ==
    Body(<<[role |-> "user", text |-> <<q.prompt>>]>>, "", FunctionsOf(q),
         <<"1024">> \o IF streaming THEN <<"stream">> ELSE <<>>)

\* sc_provider_gemini_build_request.
GeminiBody(p, q) ==
    Body(<<[role |-> "user", text |-> GeminiText(q) \o GeminiMedia(q)]>>,
         GeminiSystem(p, q), GeminiTools(q), Sampling(p) \o <<p.safety>>)

\* sc_provider_ollama_build_request.
OllamaBody(p, q, streaming) ==
    LET merged == p.merge /\ q.system # ""
        words == SelectSeq((IF merged THEN <<q.system>> ELSE <<>>) \o <<q.prompt, q.context>>, LAMBDA t : t # "")
        user == IF words = <<>> THEN <<>> ELSE <<[role |-> "user", text |-> words]>>
    IN  Body((IF merged THEN <<>> ELSE AsMessage("system", q.system)) \o user, "", OllamaTools(q),
             OllamaOptions(p) \o <<Thinking(p).think, Thinking(p).effort, OllamaFormat(p)>>
             \o IF streaming THEN <<"stream">> ELSE <<>>)

\* sc_provider_bedrock_build_request.
BedrockBody(p, q) ==
    Body(<<[role |-> "user", text |-> <<q.prompt>>]>>, q.system, <<>>, p.sampling)

\* claude_code_build_arguments: the prompt under the configured name, the rest apart.
ClaudeArguments(p, q) == Body(<<[role |-> "user", text |-> <<q.prompt>>]>>, q.system, <<>>, p.sampling)

\* gemini_cli_compose_prompt: everything in one prompt.
CliPrompt(p, q) ==
    Body(<<[role |-> "user", text |-> SelectSeq(<<q.system, q.context, q.prompt>>, LAMBDA t : t # "")]>>,
         "", <<>>, p.sampling)

\* Validation, then the body of the kind (a configured object that is not JSON is a
\* parse error; gemini may check the model's name too).
BuildRequest(p, q, streaming) ==
    LET valid == ValidateRequest(p, q)
    IN  IF valid # "ok" THEN Fail(valid)
        ELSE IF p.raw = "not json" /\ p.kind \in {"gemini", "ollama"} THEN Fail("parse")
        ELSE CASE p.kind = "compatible" -> OpenAiBody(p, q, streaming)
               [] p.kind = "anthropic" -> AnthropicBody(p, q, streaming)
               [] p.kind = "gemini" -> GeminiBody(p, q)
               [] p.kind = "ollama" -> OllamaBody(p, q, streaming)
               [] p.kind = "bedrock" -> BedrockBody(p, q)
               [] p.kind = "gemini_cli" -> CliPrompt(p, q)
               [] OTHER -> ClaudeArguments(p, q)

\* build_gemini_url, build_ollama_url, build_bedrock_url: an endpoint that is
\* already there is kept; only bedrock needs a model.
GeminiUrl(p, streaming) ==
    Done(IF p.base.path = "generateContent" THEN p.base
         ELSE [p.base EXCEPT !.path = IF streaming THEN "streamGenerateContent" ELSE "generateContent"])
OllamaUrl(p) == Done([p.base EXCEPT !.path = IF @ = "api/generate" THEN @ ELSE "api/chat"])
BedrockUrl(p, q) ==
    IF ModelOf(p, q) = "" THEN Fail("invalid_argument") ELSE Done([p.base EXCEPT !.path = "converse"])
BuildUrl(p, q, streaming) ==
    CASE p.kind = "gemini" -> GeminiUrl(p, streaming)
      [] p.kind = "ollama" -> OllamaUrl(p)
      [] p.kind = "bedrock" -> BedrockUrl(p, q)
      [] OTHER -> Done(p.base)

\* The credential a request carries: provider_curl_json_post and stream_post.
\* compatible_curl_send asks for none when neither a key nor a variable is set.
SyncHeaders(p, env) ==
    CASE p.kind = "ollama" -> Done("none")
      [] p.kind = "bedrock" -> BedrockCredentials(p, env)
      [] p.kind = "compatible" /\ p.key = "" /\ p.env = "" -> Done("none")
      [] OTHER -> ResolveCredential(p, env)
\* compatible_async_build_headers: a credential is resolved whatever is set.
CompatibleAsyncHeaders(p, env) == ResolveCredential(p, env)
\* http_provider_async_build_headers.
HttpAsyncHeaders(p, env) == SyncHeaders(p, env)
Headers(p, env, async) ==
    CASE ~async -> SyncHeaders(p, env)
      [] async /\ p.kind = "compatible" -> CompatibleAsyncHeaders(p, env)
      [] OTHER -> HttpAsyncHeaders(p, env)

-----------------------------------------------------------------------------
(* Responses. *)

\* sc_provider_response: text, reasoning, tool calls, tokens, why it ended, and a
\* search the provider already made.
Response(text, reasoning, calls, tokens, finish, pre) ==
    Done([text |-> text, reasoning |-> reasoning, calls |-> calls, tokens |-> tokens,
          finish |-> finish, pre |-> pre])

CallsNamed(calls) == \A i \in DOMAIN calls : calls[i].name # ""

\* sc_provider_openai_parse_response: a call without a name is an error, one whose
\* arguments are not JSON is kept.
OpenAiResponse(d) ==
    CASE ~d.json -> Fail("parse")
      [] d.json /\ d.error -> Fail("http")
      [] OTHER -> IF CallsNamed(d.calls) THEN Response(d.text, "", d.calls, d.tokens, "", "") ELSE Fail("parse")

\* sc_provider_anthropic_parse_response: the text parts; tool calls are not read.
AnthropicResponse(d) ==
    CASE ~d.json \/ (~d.error /\ ~d.parts) -> Fail("parse")
      [] d.json /\ d.error -> Fail("http")
      [] OTHER -> Response(d.text, "", <<>>, d.tokens, d.finish, "")

\* parse_gemini_grounding: the search the model already made.
GeminiGrounding(d) == d.search
\* parse_gemini_part: text, or a call, which needs a name.
GeminiParts(d) == IF CallsNamed(d.calls) THEN Done([text |-> d.text, calls |-> d.calls]) ELSE Fail("parse")

\* parse_gemini_json_response.
GeminiResponse(d) ==
    CASE ~d.json -> Fail("parse")
      [] d.json /\ d.error -> Fail("http")
      [] OTHER -> IF ~d.parts \/ GeminiParts(d).st # "ok" THEN Fail("parse")
                  ELSE Response(GeminiParts(d).val.text, "", GeminiParts(d).val.calls, d.tokens, d.finish, GeminiGrounding(d))

\* parse_ollama_tool_calls: arguments that are not JSON fail the response.
OllamaCalls(d) ==
    IF CallsNamed(d.calls) /\ \A i \in DOMAIN d.calls : d.calls[i].args # "not json" THEN Done(d.calls) ELSE Fail("parse")

\* sc_provider_ollama_parse_response.
OllamaResponse(d) ==
    CASE ~d.json -> Fail("parse")
      [] d.json /\ d.error -> Fail("http")
      [] OTHER -> IF OllamaCalls(d).st # "ok" THEN Fail("parse")
                  ELSE Response(d.text, d.reasoning, OllamaCalls(d).val, d.tokens, d.finish, "")

\* sc_provider_bedrock_parse_response.
BedrockResponse(d) ==
    CASE ~d.json \/ (~d.error /\ ~d.parts) -> Fail("parse")
      [] d.json /\ d.error -> Fail("http")
      [] OTHER -> Response(d.text, "", <<>>, d.tokens, d.finish, "")

\* claude_code_extract_text, extract_text_from_content: an answer without text is an
\* error.
ClaudeText(d) == IF ~d.json \/ d.text = "" THEN Fail("parse") ELSE Response(d.text, "", <<>>, 0, "", "")
\* gemini_cli_parse_response, gemini_cli_parse_usage.
CliResponse(d) == IF ~d.json \/ d.text = "" THEN Fail("parse") ELSE Response(d.text, "", <<>>, d.tokens, "", "")

\* The parse of a body that came with a 2xx status.
ParseResponse(kind, d) ==
    CASE kind = "compatible" -> OpenAiResponse(d)
      [] kind = "anthropic" -> AnthropicResponse(d)
      [] kind = "gemini" -> GeminiResponse(d)
      [] kind = "ollama" -> OllamaResponse(d)
      [] kind = "bedrock" -> BedrockResponse(d)
      [] kind = "gemini_cli" -> CliResponse(d)
      [] OTHER -> ClaudeText(d)

-----------------------------------------------------------------------------
(* Stream events. *)

Event(type, text) == [type |-> type, text |-> text]
DoneEvent == Event("done", "")

\* emit_response_as_stream.
ResponseEvents(r) ==
    (IF r.reasoning = "" THEN <<>> ELSE <<Event("reasoning", r.reasoning)>>)
    \o (IF r.text = "" THEN <<>> ELSE <<Event("delta", r.text)>>)
    \o [i \in DOMAIN r.calls |-> Event("tool", r.calls[i].name)]
    \o (IF r.pre = "" THEN <<>> ELSE <<Event("pre", r.pre)>>)

\* sc_provider_openai_parse_sse_event: content that is there, be it empty, before
\* reasoning and tool calls, and the first call of several.
OpenAiEvent(d) ==
    CASE d.done -> Done(DoneEvent)
      [] ~d.done /\ ~d.json -> Fail("parse")
      [] ~d.done /\ d.json /\ d.error -> Done(Event("error", ""))
      [] OTHER -> CASE d.tokens > 0 /\ ~d.parts -> Done(Event("usage", ""))
                    [] d.tokens = 0 /\ ~d.parts -> Fail("parse")
                    [] OTHER -> Done(IF d.content THEN Event("delta", d.text)
                                     ELSE IF d.reasoning # "" THEN Event("reasoning", d.reasoning)
                                     ELSE IF d.calls # <<>> THEN Event("tool", d.calls[1].name)
                                     ELSE Event("delta", ""))

\* sc_provider_anthropic_parse_sse_event: an event without data is an empty delta.
AnthropicEvent(d) ==
    CASE d.done -> Done(DoneEvent)
      [] ~d.done /\ ~d.json -> IF d.none THEN Done(Event("delta", "")) ELSE Fail("parse")
      [] ~d.done /\ d.json /\ d.error -> Done(Event("error", ""))
      [] OTHER -> Done(IF d.tokens > 0 THEN Event("usage", "")
                       ELSE IF d.text # "" THEN Event("delta", d.text)
                       ELSE IF d.reasoning # "" THEN Event("reasoning", d.reasoning)
                       ELSE IF d.calls # <<>> THEN Event("tool", d.calls[1].name)
                       ELSE Event("delta", ""))

\* sc_provider_gemini_parse_sse_event: a search before a call before text.
GeminiEvent(d) ==
    IF d.done THEN Done(DoneEvent)
    ELSE LET r == GeminiResponse(d)
         IN  IF r.st # "ok" THEN r
             ELSE Done(IF r.val.pre # "" THEN Event("pre", r.val.pre)
                       ELSE IF r.val.calls # <<>> THEN Event("tool", r.val.calls[1].name)
                       ELSE Event("delta", r.val.text))

ParseEvent(kind, d) ==
    CASE kind = "compatible" -> OpenAiEvent(d)
      [] kind = "anthropic" -> AnthropicEvent(d)
      [] OTHER -> GeminiEvent(d)

-----------------------------------------------------------------------------
(* Stream parsers.  A stream is a sequence of symbols: "n" and "r" are newline and
   carriage return, any other symbol a byte of an event.  A parser is a record
   [kind, partial, failed, done]; Docs gives the document an event's bytes hold. *)

IsBreak(c) == c \in {"n", "r"}

\* The document in the data lines of an event; one without data is `none`.
DocOf(text, Docs) ==
    LET data == SelectSeq(text, LAMBDA c : ~IsBreak(c))
    IN  IF data \in DOMAIN Docs THEN Docs[data]
        ELSE [json |-> FALSE, done |-> FALSE, none |-> data = <<>>]

NewParser(kind) == [kind |-> kind, partial |-> <<>>, failed |-> FALSE, done |-> FALSE]

\* What the callback answers to an event of the document (runtime_stream_callback
\* refuses the events of a cancelled turn).
CallbackStatus(d) == IF d.json THEN d.callback ELSE "ok"

\* The events the parser gives the callback for the text of one event, and the
\* status, the callback's if it refuses.  sse_parser_emit_event lets every event through and takes `done` from
\* the last; provider_sse_stream_push drops an empty delta and keeps `done`.
Emit(ps, text, Docs) ==
    LET r == ParseEvent(ps.kind, DocOf(text, Docs))
        isDone == r.val = DoneEvent
        shown == IF ps.kind # "compatible" /\ r.val = Event("delta", "") THEN <<>> ELSE <<r.val>>
    IN  IF r.st # "ok" THEN [st |-> r.st, ps |-> ps, out |-> <<>>]
        ELSE [st |-> IF shown = <<>> THEN "ok" ELSE CallbackStatus(DocOf(text, Docs)), out |-> shown,
              ps |-> [ps EXCEPT !.done = isDone \/ (ps.kind # "compatible" /\ @)]]

\* ollama_stream_emit_line: a line is a response; the last one says so.  The event the
\* callback refuses is the last it receives.
EmitLine(ps, text, Docs) ==
    LET r == OllamaResponse(DocOf(text, Docs))
        ends == r.st = "ok" /\ r.val.finish # "" /\ ~ps.done
        events == ResponseEvents(r.val) \o (IF ends THEN <<DoneEvent>> ELSE <<>>)
        refusal == CallbackStatus(DocOf(text, Docs))
    IN  IF r.st # "ok" THEN [st |-> r.st, ps |-> ps, out |-> <<>>]
        ELSE IF events # <<>> /\ refusal # "ok" THEN [st |-> refusal, ps |-> ps, out |-> <<Head(events)>>]
        ELSE [st |-> "ok", out |-> events, ps |-> [ps EXCEPT !.done = @ \/ ends]]

\* The text of the event that ends with the last of the symbols, if one does: at a
\* blank line for SSE, at a line feed for ollama.
EventEnds(kind, cur) ==
    IF kind = "ollama" THEN Last(cur) = "n" ELSE Len(cur) > 1 /\ SubSeq(cur, Len(cur) - 1, Len(cur)) = <<"n", "n">>
EventText(kind, cur) ==
    LET crlf == kind = "ollama" /\ Len(cur) > 1 /\ cur[Len(cur) - 1] = "r"
    IN  SubSeq(cur, 1, Len(cur) - IF kind = "ollama" /\ ~crlf THEN 1 ELSE 2)

\* The parser after one more symbol: line breaks behind an event are skipped as far
\* as they are in the buffer, an event is emitted, an error stops the cutting.
Feed(r, c, Docs) ==
    LET cur == Append(r.ps.partial, c)
        text == EventText(r.ps.kind, cur)
        got == IF r.ps.kind = "ollama" THEN EmitLine(r.ps, text, Docs) ELSE Emit(r.ps, text, Docs)
    IN  IF r.st # "ok" \/ (r.skip /\ IsBreak(c)) THEN r
        ELSE IF ~EventEnds(r.ps.kind, cur) THEN [r EXCEPT !.skip = FALSE, !.ps.partial = cur]
        ELSE IF text = <<>> THEN [r EXCEPT !.skip = TRUE, !.ps.partial = <<>>]
        ELSE [st |-> got.st, skip |-> TRUE, out |-> r.out \o got.out,
              ps |-> [got.ps EXCEPT !.partial = <<>>, !.failed = got.st # "ok"]]

\* sc_provider_sse_parser_push, provider_sse_stream_push, ollama_stream_push: the
\* events in what is buffered and the chunk; the skipping ends with the chunk.
CutEvents(ps, s, Docs) ==
    LET cut[i \in 0..Len(s)] ==
            IF i = 0 THEN {[st |-> "ok", skip |-> FALSE, ps |-> [ps EXCEPT !.partial = <<>>], out |-> <<>>]}
            ELSE {Feed(r, s[i], Docs) : r \in cut[i - 1]}
    IN  CHOOSE r \in cut[Len(s)] : TRUE

\* Mutant: what was buffered is forgotten.
PushForgets(ps, chunk, MaxPartial, Docs) ==
    IF ps.failed THEN [st |-> "invalid_argument", ps |-> ps, out |-> <<>>] ELSE CutEvents(ps, chunk, Docs)

\* The check of the buffer's limit, then the cutting.
Push(ps, chunk, MaxPartial, Docs) ==
    IF ps.failed THEN [st |-> "invalid_argument", ps |-> ps, out |-> <<>>]
    ELSE IF Len(ps.partial) + Len(chunk) > MaxPartial
    THEN [st |-> "invalid_argument", ps |-> [ps EXCEPT !.failed = TRUE], out |-> <<>>]
    ELSE CutEvents(ps, ps.partial \o chunk, Docs)

\* sc_provider_sse_parser_finish, provider_sse_stream_finish, ollama_stream_finish:
\* a partial SSE event is an error, a partial line is a line, and an end that the
\* stream did not announce is announced.
FinishStream(ps, Docs) ==
    LET line == EmitLine(ps, ps.partial, Docs)
        last == IF ps.kind = "ollama" /\ ps.partial # <<>> THEN line ELSE [st |-> "ok", ps |-> ps, out |-> <<>>]
    IN  CASE ps.failed -> [st |-> "invalid_argument", ps |-> ps, out |-> <<>>]
          [] ~ps.failed /\ ps.kind # "ollama" /\ ps.partial # <<>> ->
                [st |-> "parse", ps |-> [ps EXCEPT !.failed = TRUE], out |-> <<>>]
          [] OTHER -> IF last.st # "ok" \/ last.ps.done THEN last
                      ELSE [st |-> "ok", out |-> Append(last.out, DoneEvent),
                            ps |-> [last.ps EXCEPT !.done = TRUE, !.partial = <<>>]]
=============================================================================
