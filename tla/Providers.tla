---------------------------- MODULE Providers ----------------------------
(* A provider call as the runtime makes it (src/providers, sc_provider_* of
   src/contracts/contracts.c): the providers bootstrap built, alone, behind the
   router or in the reliable chain, one call at a time, synchronous or on the
   event loop, plain or streamed.  ProviderWire says what is sent and how an
   answer is read, HttpClient how an asynchronous transfer ends.

   The server is the environment: every request gets one of Answers, and a stream
   arrives in chunks of any size. *)
EXTENDS ProviderWire, HttpClient

CONSTANTS
    Setups,           \* [shape, options, routes]: what bootstrap may be told to build
    Presets,          \* the base URLs and variables of the presets
    Env,              \* the environment's credentials
    Addresses,        \* the address a host resolves to
    Prompts,          \* the requests of the runtime
    Answers,          \* what the server may answer: [curl, code, large, doc, body]
    Results,          \* what a process provider may end with: [st, doc]
    Docs,             \* the document in a stream event
    MaxPartial,       \* the stream parsers' 64 KiB
    MaxBytes,         \* an asynchronous response's 8 MiB
    ReliableRetries,  \* reliability.max_retries
    MaxCalls          \* calls in a behaviour

\* Something is built, every route leads to a provider that is, and the retries are
\* the numbers the configuration gives.
ASSUME SetupsBuilt ==
    /\ ReliableRetries \in Nat
    /\ \A s \in Setups :
          /\ Len(s.options) \in Nat \ {0} /\ DOMAIN s.options = 1..Len(s.options)
          /\ DOMAIN s.routes \subseteq Nat
          /\ \A i \in DOMAIN s.options : "retries" \in DOMAIN s.options[i] /\ s.options[i].retries \in Nat
          /\ \A i \in DOMAIN s.routes : s.routes[i].to \in DOMAIN s.options

\* What a server sends is a sequence of symbols, and the tool calls of a document are a
\* list.
ASSUME StreamsAssumption ==
    /\ \A a \in Answers : a.body \in Seq(ToSet(a.body))
    /\ \A t \in DOMAIN Docs : Docs[t].json => Docs[t].calls \in Seq(ToSet(Docs[t].calls))

VARIABLES
    boot,     \* "none", "ok" or the error that ended it
    setup,    \* the setup that was built
    chain,    \* its providers
    call,     \* the call under way
    sent,     \* the requests of this call: how many to whom, after which statuses; the
              \* codes a provider refused it with, and those after which it was asked again
    out,      \* the events its callback received
    done,     \* the calls that ended: [st, times]
    touched   \* an operation was written after it was destroyed
vars == <<boot, setup, chain, call, sent, out, done, touched>>

NoStream == [body |-> <<>>, left |-> <<>>, doc |-> <<>>, ps |-> NewParser("none"), code |-> 0, curl |-> "ok", op |-> NewOp]
NotSent == [count |-> <<>>, after |-> {}, refused |-> <<>>, again |-> {}]
Idle == [phase |-> "idle", q |-> <<>>, mode |-> "generate", direct |-> FALSE, cand |-> {},
         tries |-> 0, outer |-> 0, inner |-> 0, last |-> "ok", s |-> NoStream, times |-> 0]

Init ==
    /\ boot = "none" /\ setup \in Setups /\ chain = <<>>
    /\ call = Idle /\ sent = NotSent /\ out = <<>> /\ done = <<>> /\ touched = FALSE

-----------------------------------------------------------------------------
\* sc_provider_openai_compatible_new: a URL, if there is one, must be allowed.
CompatibleNew(p) ==
    IF p.base.scheme # "" /\ ~UrlAllowed(p.base, p.loopback) THEN Fail("security_denied")
    ELSE Done([p EXCEPT !.base = NormalizeUrl(@)])

\* create_named_provider: the options' properties with their defaults, then the
\* constructor of the kind.  claude_code needs its MCP server.
Construct(o) ==
    LET made == CASE o.preset = "preset" -> PresetNew(o, Presets)
                  [] o.preset = "local" -> Done(LocalNew(o, o.name))
                  [] o.preset = "azure" -> AzureNew(o)
                  [] OTHER -> Done(o)
    IN  CASE o.kind \in HttpKinds -> HttpProviderNew(o)
          [] o.kind = "gemini_cli" -> Done(o)
          [] o.kind = "claude_code" -> IF o.base.scheme = "" THEN Fail("unsupported") ELSE Done(o)
          [] o.kind = "compatible" -> IF made.st # "ok" THEN made ELSE CompatibleNew(made.val)
          [] OTHER -> Fail("unsupported")

\* create_provider: the providers are built in order and the first error ends it.
Boot ==
    /\ boot = "none"
    /\ LET made == [i \in DOMAIN setup.options |-> Construct(setup.options[i])]
           bad == {i \in DOMAIN made : made[i].st # "ok"}
       IN  /\ boot' = IF bad = {} THEN "ok" ELSE made[Min(bad)].st
           /\ chain' = IF bad = {} THEN [i \in DOMAIN made |-> made[i].val] ELSE <<>>
    /\ UNCHANGED <<setup, call, sent, out, done, touched>>

\* select_provider: a route of the hint, the tools route when the prompt speaks of
\* tools, the default.
SelectProvider(q) ==
    LET hinted == {i \in DOMAIN setup.routes : setup.routes[i].hint \in q.hint}
        tools == {i \in DOMAIN setup.routes : setup.routes[i].hint = "tools"}
    IN  CASE hinted # {} -> setup.routes[Min(hinted)].to
          [] hinted = {} /\ q.aboutTools /\ tools # {} -> setup.routes[Min(tools)].to
          [] OTHER -> 1

\* reliable_generate, reliable_stream: the providers the model names, all if none.
\* They are tried in the order of the chain.
Candidates(q) ==
    LET named == {i \in DOMAIN chain : chain[i].name \in q.named}
    IN  CASE setup.shape = "reliable" -> IF named = {} THEN DOMAIN chain ELSE named
          [] setup.shape = "router" -> {SelectProvider(q)}
          [] OTHER -> {1}
Current(c) == Min(c.cand)

\* sc_provider_generate(_async), sc_provider_stream(_async): an asynchronous call of
\* a provider without asynchronous operations is a synchronous one.
Start(q, mode, async) ==
    /\ boot = "ok" /\ call.phase = "idle" /\ Len(done) < MaxCalls
    /\ call' = [Idle EXCEPT !.phase = "call", !.q = q, !.mode = mode, !.cand = Candidates(q),
                            !.direct = async /\ setup.shape = "single" /\ chain[1].kind \notin ProcessKinds]
    /\ sent' = [NotSent EXCEPT !.count = [i \in DOMAIN chain |-> 0], !.refused = [i \in DOMAIN chain |-> {}]]
    /\ out' = <<>>
    /\ UNCHANGED <<boot, setup, chain, done, touched>>

-----------------------------------------------------------------------------
(* What an attempt that ended with status st leads to. *)

\* sc_provider_classify_retry, sc_provider_should_retry.
ShouldRetry(st, code) ==
    /\ st \notin {"cancelled", "security_denied", "invalid_argument", "parse"}
    /\ code \notin {401, 403}
    /\ code = 408 \/ code = 429 \/ code >= 500 \/ st \in {"timeout", "io", "http"}

\* The errors after which the chain tries no other provider.
Permanent == {"security_denied", "cancelled", "invalid_argument", "parse"}

\* The loops' bound: max_retries attempts after the first.
AttemptLeft(n, max) == n < max

\* Mutant: an attempt is repeated whatever its error.
ConcludeStubborn(c, st) ==
    IF st # "ok" /\ AttemptLeft(c.tries, ReliableRetries)
    THEN [c EXCEPT !.phase = "call", !.tries = @ + 1, !.outer = 0, !.inner = 0, !.last = st]
    ELSE [c EXCEPT !.phase = "ended", !.last = st, !.times = @ + 1]

\* Mutant: a cancelled call is not answered.
ConcludeLost(c, st) ==
    IF st = "cancelled" THEN c ELSE [c EXCEPT !.phase = "ended", !.last = st, !.times = @ + 1]

\* reliable_call_generate, reliable_call_stream and the loops around them.
Conclude(c, st) ==
    LET again == [c EXCEPT !.phase = "call", !.outer = 0, !.inner = 0, !.last = st]
        ended == [c EXCEPT !.phase = "ended", !.last = st, !.times = @ + 1]
    IN  IF setup.shape # "reliable" \/ st = "ok" THEN ended
        ELSE IF ShouldRetry(st, 0) /\ AttemptLeft(c.tries, ReliableRetries) THEN [again EXCEPT !.tries = @ + 1]
        ELSE IF st \in Permanent \/ c.cand = {Current(c)} THEN ended
        ELSE [again EXCEPT !.cand = @ \ {Current(c)}, !.tries = 0]

Provider == chain[Current(call)]
Streamed == call.mode = "stream"

\* One call of the provider's table: cancellation (asynchronous calls do not look),
\* the request, the URL, the credentials; then the request is under way.
CallProvider ==
    /\ call.phase = "call"
    /\ LET p == Provider
           url == BuildUrl(p, call.q, Streamed)
           body == BuildRequest(p, call.q, Streamed)
           head == Headers(p, Env, call.direct)
           st == CASE call.q.cancel /\ ~call.direct -> "cancelled"
                   [] Streamed /\ p.kind = "bedrock" -> "unsupported"
                   [] OTHER -> IF body.st # "ok" THEN body.st
                               ELSE IF p.kind \in ProcessKinds THEN "ok"
                               ELSE IF url.st # "ok" THEN url.st
                               ELSE IF head.st # "ok" \/ ~call.direct THEN head.st
                               ELSE RefusedBefore([url |-> url.val.scheme, header |-> head.val, cancel |-> FALSE])
           next == CASE p.kind \in ProcessKinds -> "process"
                     [] call.direct -> "transfer"
                     [] OTHER -> IF Streamed /\ p.kind # "compatible" THEN "stream" ELSE "post"
       IN  call' = IF st = "ok" THEN [call EXCEPT !.phase = next] ELSE Conclude(call, st)
    /\ UNCHANGED <<boot, setup, chain, sent, out, done, touched>>

\* A request goes out and is answered with a code, 0 if the transfer fails; the codes
\* that say the request or its credentials are no good are kept.
Refusals == {400, 401, 403}
Send(code) ==
    LET to == Current(call)
    IN  sent' = [count |-> [sent.count EXCEPT ![to] = @ + 1],
                 after |-> sent.after \cup {call.last},
                 refused |-> [sent.refused EXCEPT ![to] = @ \cup ({code} \cap Refusals)],
                 again |-> sent.again \cup sent.refused[to]]
AnswerCode(a) == IF a.curl = "ok" THEN a.code ELSE 0
Success(code) == code \in 200..299
\* provider_http_status_retryable, provider_curl_code_retryable.
Retryable(a) == a.curl \in {"timeout", "transient"} \/ a.code \in {408, 429} \/ a.code >= 500

-----------------------------------------------------------------------------
\* provider_curl_json_post: whether its loop sends again, and its status.
JsonPostAgain(a, p) == ~a.large /\ Retryable(a) /\ AttemptLeft(call.inner, p.retries)
JsonPostStatus(a) == IF a.curl # "ok" \/ a.large THEN "http" ELSE "ok"

\* compatible_generate and compatible_stream repeat by the code of the answer,
\* http_provider_generate makes every refusal an HTTP error first.
CompatibleRetries(a) == ShouldRetry(JsonPostStatus(a), a.code)
HttpRetries(a) ==
    ShouldRetry(IF JsonPostStatus(a) = "ok" /\ ~Success(a.code) THEN "http" ELSE JsonPostStatus(a), a.code)

\* provider_curl_json_post once, in the loop of json_post and in the loop of
\* http_provider_generate, compatible_generate or compatible_stream around it.
Post(a) ==
    /\ call.phase = "post"
    /\ Send(AnswerCode(a))
    /\ \E whole \in {Push(NewParser("compatible"), a.body, MaxPartial, Docs)} : \E rest \in {FinishStream(whole.ps, Docs)} :
       LET p == Provider
           inner == JsonPostAgain(a, p)
           st == IF JsonPostStatus(a) = "ok" /\ ~Success(a.code) THEN "http" ELSE JsonPostStatus(a)
           outer == /\ AttemptLeft(call.outer, p.retries)
                    /\ IF p.kind = "compatible" THEN CompatibleRetries(a) ELSE HttpRetries(a)
           final == CASE st # "ok" -> [st |-> st, out |-> <<>>]
                      [] st = "ok" /\ ~Streamed -> [st |-> ParseResponse(p.kind, a.doc).st, out |-> <<>>]
                      [] OTHER -> IF whole.st # "ok" THEN [st |-> whole.st, out |-> whole.out]
                                  ELSE [st |-> rest.st, out |-> whole.out \o rest.out]
       IN  /\ call' = IF inner THEN [call EXCEPT !.inner = @ + 1]
                      ELSE IF outer THEN [call EXCEPT !.inner = 0, !.outer = @ + 1]
                      ELSE Conclude([call EXCEPT !.s.body = a.body], final.st)
           /\ out' = IF inner \/ outer THEN out ELSE out \o final.out
    /\ UNCHANGED <<boot, setup, chain, done, touched>>

\* claude_code_generate: one MCP call; a denied or failed call is its status.
ClaudeResult(r) == r.st
\* gemini_cli_run, map_process_status: one run of the program; the code of its error
\* is kept under another key.
CliResult(r) == r.st

\* claude_code_stream, gemini_cli_stream: the answer as one delta.
Process(r) ==
    /\ call.phase = "process"
    /\ Send(0)
    /\ LET parsed == ParseResponse(Provider.kind, r.doc)
           ran == IF Provider.kind = "gemini_cli" THEN CliResult(r) ELSE ClaudeResult(r)
           st == IF ran # "ok" THEN ran ELSE parsed.st
       IN  /\ call' = Conclude(call, st)
           /\ out' = IF Streamed /\ st = "ok" THEN out \o ResponseEvents(parsed.val) \o <<DoneEvent>> ELSE out
    /\ UNCHANGED <<boot, setup, chain, done, touched>>

-----------------------------------------------------------------------------
\* A transfer whose socket the client refused to open.
NoSocket == [curl |-> "transient", code |-> 0, large |-> FALSE, doc |-> [json |-> FALSE], body |-> <<>>]

\* provider_curl_stream_post, or an asynchronous transfer, which may reach a private
\* address only with allow_loopback: the answer begins.
Respond(b) ==
    /\ call.phase \in {"stream", "transfer"}
    /\ LET refused == call.phase = "transfer" /\ SocketRefused(Addresses[Provider.base.host], Provider.loopback)
           a == IF refused THEN NoSocket ELSE b
       IN  /\ Send(AnswerCode(a))
           /\ call' = [call EXCEPT !.phase = IF call.phase = "stream" THEN "chunks" ELSE "receiving",
                                   !.s = [body |-> a.body, left |-> a.body, ps |-> NewParser(Provider.kind), doc |-> a.doc,
                                          code |-> a.code, curl |-> a.curl, op |-> [NewOp EXCEPT !.large = a.large /\ ~Streamed]]]
    /\ UNCHANGED <<boot, setup, chain, out, done, touched>>

\* A chunk for the stream parser.  A synchronous stream has no limit of its own, and an
\* error of the parser ends it with its status; the client keeps the error on the
\* operation, which http_check_multi_info completes with it and resets after the
\* completion has destroyed it.
Chunk(n) ==
    /\ call.phase \in {"chunks", "receiving"}
    /\ Streamed /\ n \in 1..Len(call.s.left)
    /\ \E got \in {Push(call.s.ps, SubSeq(call.s.left, 1, n), MaxPartial, Docs)} :
       LET wrote == WriteChunk(call.s.op, n, FALSE, MaxBytes, got.st)
           op == IF call.phase = "chunks" THEN call.s.op ELSE wrote[1]
           read == [call.s EXCEPT !.ps = IF op.large THEN @ ELSE got.ps, !.left = SubSeq(@, n + 1, Len(@)), !.op = op]
           fed == [call EXCEPT !.s = read]
       IN  IF call.phase = "chunks"
           THEN /\ call' = IF got.st = "ok" THEN fed ELSE Conclude(fed, got.st)
                /\ out' = out \o got.out /\ UNCHANGED touched
           ELSE /\ call' = IF wrote[2] THEN fed ELSE Conclude(fed, CompletionStatus(op, FALSE, "fatal", call.s.code))
                /\ out' = IF op.large THEN out ELSE out \o got.out
                /\ touched' = (touched \/ op.status # "ok")
    /\ UNCHANGED <<boot, setup, chain, sent, done>>

\* The status before the answer is read: provider_curl_stream_post and
\* http_provider_stream;
StreamStatus(s) == IF s.curl # "ok" \/ ~Success(s.code) THEN "http" ELSE "ok"
\* compatible_async_generate_complete, compatible_async_stream_complete;
CompatibleStatus(s) ==
    LET st == CompletionStatus(s.op, FALSE, s.curl, s.code)
    IN  IF st = "ok" /\ ~Success(s.code) THEN "http" ELSE st
\* http_provider_async_stream_complete and http_provider_async_generate_complete, which
\* reads an HTTP error even when the transfer has a status of its own.
HttpStatus(s) == IF ~Streamed /\ s.code >= 400 THEN "http" ELSE CompatibleStatus(s)

\* The end of the transfer: the answer is read, the stream finished, the call answered.
EndOfTransfer ==
    /\ call.phase \in {"chunks", "receiving"}
    /\ ~Streamed \/ call.s.left = <<>>
    /\ LET s == call.s
           kind == Provider.kind
           st == CASE call.phase = "chunks" -> StreamStatus(s)
                   [] call.phase = "receiving" /\ kind = "compatible" -> CompatibleStatus(s)
                   [] OTHER -> HttpStatus(s)
           end == IF Streamed THEN FinishStream(s.ps, Docs)
                  ELSE [st |-> ParseResponse(kind, s.doc).st, out |-> <<>>]
       IN  /\ call' = Conclude(call, IF st = "ok" THEN end.st ELSE st)
           /\ out' = IF st = "ok" THEN out \o end.out ELSE out
    /\ UNCHANGED <<boot, setup, chain, sent, done, touched>>

\* The call returns, or has completed.
Return ==
    /\ call.phase = "ended"
    /\ done' = Append(done, [st |-> call.last, times |-> call.times])
    /\ call' = Idle
    /\ UNCHANGED <<boot, setup, chain, sent, out, touched>>

Step ==
    \/ CallProvider
    \/ \E a \in Answers : Post(a)
    \/ \E r \in Results : Process(r)
    \/ \E a \in Answers : Respond(a)
    \/ \E n \in 1..MaxPartial : Chunk(n)
    \/ EndOfTransfer
    \/ Return

Next == Boot \/ (\E q \in Prompts, mode \in {"generate", "stream"}, async \in BOOLEAN : Start(q, mode, async)) \/ Step

Spec == Init /\ [][Next]_vars /\ WF_vars(Step)

-----------------------------------------------------------------------------
\* What a call's record may hold.
TypeOK ==
    /\ boot \in {"none", "ok", "security_denied", "invalid_argument", "unsupported"}
    /\ call.phase \in {"idle", "call", "post", "process", "stream", "transfer", "chunks", "receiving", "ended"}
    /\ call.tries <= ReliableRetries /\ call.times <= 1
    /\ call.phase # "idle" => sent.count \in [DOMAIN chain -> Nat]

\* The retries of the three nested loops (json_post, the provider, the chain) multiply
\* and nothing adds to them: a call sends a provider at most (R+1)(K+1)^2 requests,
\* an asynchronous call exactly the one.
RequestsBounded ==
    \A i \in DOMAIN sent.count :
        sent.count[i] <= IF call.direct THEN 1
                         ELSE (ReliableRetries + 1) * (chain[i].retries + 1) * (chain[i].retries + 1)

\* A denial, a cancellation, an invalid request or an unreadable answer ends the call:
\* whatever loop met it, no request follows it, to this provider or another one.
PermanentEnds == sent.after \cap Permanent = {}

\* Outside the chain a provider that refused the credentials is not asked again in the
\* call, by neither of the two loops around its request (sc_provider_should_retry).
CredentialsEnd == setup.shape # "reliable" => sent.again \cap {401, 403} = {}

\* The nested retry loops send no more than their product and nothing after an
\* answer that is final (provider_json_post, reliable_generate, router_generate).
RetriesSound == TypeOK /\ RequestsBounded /\ PermanentEnds /\ CredentialsEnd

\* "Do not retry security denials, invalid credentials, invalid requests, or
\* cancellation as transient failures" (PROVIDER_RULES.md): a provider that answered
\* 400, 401 or 403 is not sent the call's request again.  The chain asks
\* sc_provider_should_retry about code 0 and http_provider_generate makes every
\* refusal an HTTP error, so both repeat.
RefusalsNotRetried == sent.again = {}

\* Where the events of a stream end: at a line feed for ollama, at two for the others.
EndsOf(kind, body) ==
    {k \in DOMAIN body : body[k] = "n" /\ (kind = "ollama" \/ (k > 1 /\ body[k - 1] = "n"))}

\* The first symbol of the event that symbol k belongs to.
FirstSymbol(ends, k) == Min({i \in 1..k : \A e \in i..(k - 1) : e \notin ends})

\* The text of the event that ends at k: what is before its line breaks.
TextAt(kind, body, k) ==
    LET breaks == IF kind # "ollama" \/ (k > 1 /\ body[k - 1] = "r") THEN 2 ELSE 1
    IN  SubSeq(body, FirstSymbol(EndsOf(kind, body), k), k - breaks)

\* A line of ollama that the end of the stream ends.
LastLine(kind, body) == SubSeq(body, FirstSymbol(EndsOf(kind, body), Len(body) + 1), Len(body))

\* Does the text of an event announce the end, and what does it tell beside that?
\* An empty delta is told by the compatible providers only.
Announces(kind, text) ==
    IF kind = "ollama" THEN OllamaResponse(DocOf(text, Docs)).val.finish # ""
    ELSE ParseEvent(kind, DocOf(text, Docs)).val = DoneEvent
Tells(kind, text) ==
    IF kind = "ollama" THEN ResponseEvents(OllamaResponse(DocOf(text, Docs)).val)
    ELSE LET e == ParseEvent(kind, DocOf(text, Docs)).val
         IN  IF e = DoneEvent \/ (kind # "compatible" /\ e = Event("delta", "")) THEN <<>> ELSE <<e>>

\* No event begins with a line break, the stream is complete (the last line of ollama
\* needs no line feed), and only its last event announces the end.
WellFormed(kind, body) ==
    LET ends == EndsOf(kind, body)
    IN  /\ \A k \in DOMAIN body : (k = 1 \/ k - 1 \in ends) => ~IsBreak(body[k])
        /\ kind = "ollama" \/ Len(body) \in ends
        /\ \A k \in ends : k < Len(body) => ~Announces(kind, TextAt(kind, body, k))

\* What a well-formed stream tells, event by event, and one DONE.
Meaning(kind, body) ==
    LET ends == EndsOf(kind, body)
        told == FlattenSeq([k \in DOMAIN body |-> IF k \in ends THEN Tells(kind, TextAt(kind, body, k)) ELSE <<>>])
    IN  (IF Len(body) \in ends THEN told ELSE told \o Tells(kind, LastLine(kind, body))) \o <<DoneEvent>>

\* However the network cut it, a well-formed stream that was read without an error and
\* without a second request gave the callback its events, in order, each once, and
\* one DONE at the end.
StreamFaithful ==
    (/\ call.phase = "ended" /\ Streamed
     /\ sent.count[Current(call)] = 1 /\ call.last = "ok" /\ call.cand = Candidates(call.q) /\ call.s.body # <<>>
     /\ WellFormed(Provider.kind, call.s.body))
        => out = Meaning(Provider.kind, call.s.body)

\* Every call ends while the servers and programs answer.
EveryCallEnds == (call.phase # "idle") ~> (call.phase = "idle")
=============================================================================
