------------------------------ MODULE Browser -------------------------------
(***************************************************************************)
(* The browser and browser_screenshot tools (tools/browser_tool.c): each   *)
(* keeps named sessions, a session drives one target of a browser through  *)
(* a websocket of its own, and every step is one request of the Chrome     *)
(* DevTools Protocol, answered by a message with the request's number.     *)
(*                                                                         *)
(* The browser is another process: it answers when it likes, sends events  *)
(* in between, follows a link or a script to another page by itself, and   *)
(* may close a websocket.  A call is a sequence of stages; pc says whether *)
(* the next step sends the stage's request or receives a message.          *)
(***************************************************************************)
EXTENDS Integers, Sequences, FiniteSets, SequencesExt

CONSTANTS
    BrowserCalls,      \* the calls a model may make of the two tools
    BrowserSettings,   \* the browser.* properties of the configuration
    Discoveries,       \* what /json/version may lead to
    Sites,             \* url -> [elements, controls]: the document's elements in order,
                       \* and the places of those the script lists (links, buttons, fields)
    MaxReceives,       \* messages one cdp_call looks at (128)
    MaxListed,         \* elements one snapshot lists (50)
    BrowserBudgets     \* how often what may happen: [calls, events, faults, polls, moves]

ASSUME BrowserAssumption ==
    /\ MaxReceives \in Nat \ {0} /\ MaxListed \in Nat \ {0}
    /\ \A call \in BrowserCalls : call.tool \in {"browser", "browser_screenshot"}
    /\ \A u \in DOMAIN Sites :
          LET elements == Sites[u].elements
              controls == Sites[u].controls
          IN  /\ Len(elements) \in Nat /\ DOMAIN elements = 1..Len(elements)
              /\ \A n \in DOMAIN controls : controls[n] \in DOMAIN elements
    /\ BrowserBudgets \subseteq [calls : Nat, events : Nat, faults : Nat, polls : Nat, moves : Nat]

VARIABLES
    tabs,      \* tool -> its sessions vector
    nextId,    \* tool -> next_id
    act,       \* the call in progress
    wires,     \* the websockets: messages for the tool, requests unanswered
    pages,     \* the targets of the browser: the url each shows, NoText if closed
    told,      \* ghost: the values the last call reported, and of which page
    hits,      \* ghost: the elements clicked by reference, with what was listed
    allowed    \* what is left of the budget

browserVars == <<tabs, nextId, act, wires, pages, told, hits, allowed>>

BrowserToolNames == {"browser", "browser_screenshot"}

NoText == ""
NoTab == [name |-> NoText, active |-> FALSE, client |-> 0, target |-> 0, cdp |-> [wire |-> 0, target |-> 0],
          refs |-> <<>>, page |-> NoText]
NoAct == [pc |-> "idle", call |-> CHOOSE c \in BrowserCalls : TRUE, tool |-> "browser", slot |-> 0,
          stage |-> NoText, id |-> 0, tries |-> 0, selector |-> <<>>, st |-> "ok", from |-> 0]

BrowserInit ==
    /\ tabs = [t \in BrowserToolNames |-> <<>>] /\ nextId = [t \in BrowserToolNames |-> 1]
    /\ act = NoAct /\ wires = <<>> /\ pages = <<>> /\ told = {} /\ hits = {}
    /\ allowed \in BrowserBudgets

Spend(f) == allowed[f] > 0 /\ allowed' = [allowed EXCEPT ![f] = @ - 1]

(***************************************************************************)
(* The sessions.                                                           *)
(***************************************************************************)
NormalizedName(name) == IF name = "" THEN "default" ELSE name

FindSession(tool, name) ==
    LET open == {i \in 1..Len(tabs[tool]) :
                    tabs[tool][i].active /\ tabs[tool][i].name = NormalizedName(name)}
    IN  IF open = {} THEN 0 ELSE Min(open)

SessionClearRefs(tab) == [tab EXCEPT !.refs = <<>>]

SessionClear(tab) == NoTab

(* browser_open forgets the target the session had.                        *)
Reopened(tab) == [SessionClearRefs(tab) EXCEPT !.target = 0, !.cdp = NoTab.cdp]

(* The websocket of a cleared session is closed.                           *)
HangUp(ws, client) == IF client = 0 THEN ws ELSE [ws EXCEPT ![client] = [up |-> FALSE, in |-> <<>>, owed |-> {}]]

(* <<slot, sessions>>: an open session of that name, else the first slot   *)
(* that is free, else a new one.                                           *)
GetOrCreateSession(tool, name) ==
    LET all == tabs[tool]
        free == {i \in 1..Len(all) : ~all[i].active}
        fresh(tab) == [tab EXCEPT !.name = NormalizedName(name), !.active = TRUE]
    IN  IF FindSession(tool, name) # 0 THEN <<FindSession(tool, name), all>>
        ELSE IF free # {} THEN <<Min(free), [all EXCEPT ![Min(free)] = fresh(SessionClear(@))]>>
        ELSE <<Len(all) + 1, Append(all, fresh(NoTab))>>

SessionAddRef(refs, selector) == Append(refs, selector)

(* The selector the script writes for an element: #id, or tag[name=name],  *)
(* or tag:nth-of-type(1), which means the first of its tag wherever the    *)
(* element stands.  An id is the parts between its dots (<<>>: no id).  It *)
(* is escaped for a string and not for CSS: #a.b reads as the id a and the *)
(* class b, so it need not match the element it was written for.           *)
SelectorOf(element) ==
    CASE element.id # <<>> -> <<"id", element.id>>
      [] element.id = <<>> /\ element.name # NoText -> <<"name", element.tag, element.name>>
      [] OTHER -> <<"tag", element.tag>>
Matches(element, selector) ==
    \/ /\ Len(selector) = 2 /\ selector[1] = "id"
       /\ element.id = <<Head(selector[2])>> /\ Range(Tail(selector[2])) \subseteq element.classes
    \/ element.name # NoText /\ selector = <<"name", element.tag, element.name>>
    \/ selector = <<"tag", element.tag>>
(* querySelector takes the first element of the document that matches.     *)
QuerySelector(elements, selector) ==
    LET found == {i \in DOMAIN elements : Matches(elements[i], selector)}
    IN  IF found = {} THEN 0 ELSE Min(found)
ElementsOf(url) == IF url \in DOMAIN Sites THEN Sites[url].elements ELSE <<>>
ControlsOf(url) == IF url \in DOMAIN Sites THEN Sites[url].controls ELSE <<>>
Listing(url) ==
    [n \in {k \in DOMAIN ControlsOf(url) : k <= MaxListed} |-> SelectorOf(ElementsOf(url)[ControlsOf(url)[n]])]

(* Empty selectors are left out; the script writes none.                   *)
ParseSnapshotResult(tab, selectors) ==
    [tab EXCEPT !.refs =
        IF \A i \in DOMAIN selectors : selectors[i] # <<>> THEN selectors
        ELSE FoldLeft(SessionAddRef, SessionClearRefs(tab).refs, SelectSeq(selectors, LAMBDA s : s # <<>>))]

(* A target is [ref |-> n] for @n, or [ref |-> 0, css |-> selector].       *)
ResolveTarget(tab, target) ==
    IF target.ref = 0 THEN target.css
    ELSE IF target.ref \in DOMAIN tab.refs THEN tab.refs[target.ref] ELSE <<>>

(***************************************************************************)
(* What a call must pass before it does anything.                          *)
(***************************************************************************)
ActionKnown == {"open", "snapshot", "click", "wait", "screenshot", "text", "get", "get_text", "title",
                "get_title", "close", "diagnose"}
ActionRequiresUrl(action) == action = "open"
ActionRequiresTarget(action) == action \in {"click", "wait"}

(* The list as written in the configuration; one that does not parse       *)
(* allows every domain.                                                    *)
DomainListAllows(list, url) == list = {"broken"} \/ "*" \in list \/ url \in list
ConfigDomainCheck(call) ==
    CASE call.url = "" -> "ok"
      [] call.url # "" /\ ~call.parses -> "parse"
      [] OTHER -> IF DomainListAllows(BrowserSettings.domains, call.url) THEN "ok" ELSE "denied"

GetOptionalTimeout(call) == IF call.timeout < 0 THEN "invalid" ELSE "ok"
GetScreenshotDelivery(call) == IF call.format \in {"", "photo", "document"} THEN "ok" ELSE "invalid"

FirstFailure(checks) ==
    LET bad == {i \in 1..Len(checks) : checks[i] # "ok"}
    IN  IF bad = {} THEN "ok" ELSE checks[Min(bad)]
Unless(holds, st) == IF holds THEN "ok" ELSE st

(* diagnose needs no more than its name.                                   *)
BrowserInvokeCheck(call) ==
    LET named == << Unless(~call.cancelled, "cancelled"), Unless(call.action \in ActionKnown, "invalid") >>
    IN  FirstFailure(
            IF call.action = "diagnose" THEN named
            ELSE named \o
                << Unless(BrowserSettings.enabled, "unsupported"), GetOptionalTimeout(call),
                   Unless(~ActionRequiresUrl(call.action) \/ call.url # "", "invalid"),
                   Unless(~ActionRequiresTarget(call.action) \/ call.target.ref # 0 \/ call.target.css # <<>>, "invalid"),
                   Unless(call.permitted, "denied"),
                   IF ActionRequiresUrl(call.action) THEN ConfigDomainCheck(call) ELSE "ok" >>)

ScreenshotInvokeCheck(call) ==
    FirstFailure(
        << Unless(~call.cancelled, "cancelled"), Unless(call.url # "", "invalid"), GetOptionalTimeout(call),
           GetScreenshotDelivery(call), Unless(BrowserSettings.enabled, "unsupported"),
           Unless(call.permitted, "denied"), ConfigDomainCheck(call) >>)

(***************************************************************************)
(* Connecting.                                                             *)
(***************************************************************************)
UrlIsLoopback(url) == url.host = "loopback"
ValidateLightpandaUrl(url, isCdp) ==
    IF url.scheme = "" THEN "parse"
    ELSE IF BrowserSettings.requireLoopback /\ ~UrlIsLoopback(url) THEN "denied"
    ELSE IF isCdp /\ url.scheme \notin {"ws", "wss"} THEN "invalid" ELSE "ok"
CdpUrlNeedsDiscovery(url) == url.bare

(* A discovery is [st, url]; st is that of the probe of version_url.       *)
DiscoverCdpUrl(found) ==
    FirstFailure(<<ValidateLightpandaUrl(BrowserSettings.version, FALSE), found.st,
                   IF found.st = "ok" THEN ValidateLightpandaUrl(found.url, TRUE) ELSE "ok">>)

ConnectStatus(found) ==
    LET url == BrowserSettings.cdp
        discovered == DiscoverCdpUrl(found)
    IN  IF ValidateLightpandaUrl(url, TRUE) # "ok" THEN ValidateLightpandaUrl(url, TRUE)
        ELSE IF CdpUrlNeedsDiscovery(url) /\ discovered = "denied" THEN "denied" ELSE "ok"

(***************************************************************************)
(* The stages of a call, and the request of each.                          *)
(***************************************************************************)
StageOf(action, target) ==
    CASE action \in {"title", "get_title", "text", "get", "get_text"} -> "eval"
      [] action = "snapshot" -> "markdown"
      [] action = "wait" -> IF target.css \in {<<"load">>, <<"networkidle">>} THEN "load" ELSE "select"
      [] OTHER -> action

AfterStage == [page |-> "runtime", runtime |-> "navigate", navigate |-> "load"]

CdpMethod(stage) ==
    CASE stage = "create" -> "Target.createTarget" [] stage = "attach" -> "Target.attachToTarget"
      [] stage = "page" -> "Page.enable" [] stage = "runtime" -> "Runtime.enable"
      [] stage = "navigate" -> "Page.navigate" [] stage = "markdown" -> "LP.getMarkdown"
      [] stage \in {"screenshot", "plain"} -> "Page.captureScreenshot"
      [] stage = "close" -> "Target.closeTarget"
      [] OTHER -> "Runtime.evaluate"

Tab == tabs[act.tool][act.slot]
SetTab(tab) == tabs' = [tabs EXCEPT ![act.tool][act.slot] = tab]

(* Only the Target.* requests carry no cdp session.                        *)
AppendCdpMessage(id) ==
    [id |-> id, method |-> CdpMethod(act.stage), stage |-> act.stage,
     cdp |-> IF act.stage \in {"create", "attach", "close"} THEN NoTab.cdp ELSE Tab.cdp,
     target |-> Tab.target, url |-> act.call.url, selector |-> act.selector, beyond |-> act.stage = "screenshot"]

(* The call returns (its receipt is recorded nowhere, see RemoteTools).    *)
Finish(st) == act' = [act EXCEPT !.pc = "idle", !.st = st]
GoTo(stage) == act' = [act EXCEPT !.pc = "send", !.stage = stage]

(* browser_close: whatever the browser said, the session is cleared; and   *)
(* browser_screenshot keeps the status it had before.                      *)
CloseSession(st, ws) ==
    /\ Finish(IF act.tool = "browser_screenshot" THEN act.st ELSE st)
    /\ wires' = HangUp(ws, Tab.client) /\ SetTab(SessionClear(Tab))

(* The status of a call that fails in a stage: a snapshot without LP falls *)
(* back on the script, a screenshot is retried without the whole page, and *)
(* browser_screenshot closes what it opened.                               *)
FailStage(st, ws) ==
    CASE act.stage = "markdown" -> GoTo("script") /\ wires' = ws /\ UNCHANGED tabs
      [] act.stage = "screenshot" /\ st = "cdp_error" -> GoTo("plain") /\ wires' = ws /\ UNCHANGED tabs
      [] act.stage = "close" -> CloseSession(st, ws)
      [] act.stage \in {"screenshot", "plain"} /\ act.tool = "browser_screenshot" ->
            /\ act' = [act EXCEPT !.pc = "send", !.stage = "close", !.st = st]
            /\ wires' = ws /\ UNCHANGED tabs
      [] OTHER -> Finish(st) /\ wires' = ws /\ UNCHANGED tabs

(***************************************************************************)
(* browser_invoke and browser_screenshot_invoke, up to the first request.  *)
(***************************************************************************)
Invoke(call) ==
    LET tool == call.tool
        st == IF tool = "browser" THEN BrowserInvokeCheck(call) ELSE ScreenshotInvokeCheck(call)
        slot == FindSession(tool, call.session)
        begun == [NoAct EXCEPT !.pc = "send", !.call = call, !.tool = tool, !.slot = slot, !.from = allowed.calls - 1]
        opened == GetOrCreateSession(tool, call.session)
        selector == ResolveTarget(tabs[tool][slot], call.target)
        rejected(s) == act' = [begun EXCEPT !.pc = "idle", !.slot = 0, !.st = s]
    IN  /\ act.pc = "idle" /\ Spend("calls") /\ told' = {}
        /\ UNCHANGED <<nextId, pages, hits>>
        /\ \/ st # "ok" /\ rejected(st) /\ UNCHANGED <<tabs, wires>>
           \/ st = "ok" /\ call.action = "diagnose" /\ rejected("ok") /\ UNCHANGED <<tabs, wires>>
           \/ /\ st = "ok" /\ (tool = "browser_screenshot" \/ call.action = "open")
              /\ tabs' = [tabs EXCEPT ![tool] = [opened[2] EXCEPT ![opened[1]] = Reopened(@)]]
              /\ act' = [begun EXCEPT !.slot = opened[1], !.stage = "connect"]
              /\ UNCHANGED wires
           \/ /\ st = "ok" /\ tool = "browser" /\ call.action = "close"
              /\ IF slot = 0 THEN rejected("ok") /\ UNCHANGED <<tabs, wires>>
                 ELSE IF tabs[tool][slot].target # 0
                 THEN act' = [begun EXCEPT !.stage = "close"] /\ UNCHANGED <<tabs, wires>>
                 ELSE /\ rejected("ok") /\ wires' = HangUp(wires, tabs[tool][slot].client)
                      /\ tabs' = [tabs EXCEPT ![tool][slot] = SessionClear(@)]
           \/ /\ st = "ok" /\ tool = "browser" /\ call.action \notin {"open", "close", "diagnose"}
              /\ UNCHANGED <<tabs, wires>>
              /\ IF slot = 0 THEN rejected("invalid")
                 ELSE IF call.action = "click" /\ selector = <<>> THEN rejected("invalid")
                 ELSE act' = [begun EXCEPT !.stage = StageOf(call.action, call.target),
                                           !.selector = IF call.action = "click" THEN selector ELSE call.target.css]

(* browser_session_connect: the old websocket goes before anything can     *)
(* fail.                                                                   *)
SessionConnect(found, up) ==
    LET st == ConnectStatus(found)
        hungUp == HangUp(wires, Tab.client)
        new == Len(wires) + 1
    IN  /\ act.pc = "send" /\ act.stage = "connect"
        /\ UNCHANGED <<nextId, pages, told, hits>>
        /\ IF st = "ok" /\ up
           THEN /\ wires' = Append(hungUp, [up |-> TRUE, in |-> <<>>, owed |-> {}])
                /\ SetTab([Tab EXCEPT !.client = new]) /\ GoTo("create") /\ UNCHANGED allowed
           ELSE /\ wires' = hungUp /\ SetTab([Tab EXCEPT !.client = 0])
                /\ Finish(IF st = "ok" THEN "io" ELSE st)
                /\ IF st = "ok" THEN Spend("faults") ELSE UNCHANGED allowed

(***************************************************************************)
(* cdp_call.                                                               *)
(***************************************************************************)
CdpSend ==
    /\ act.pc = "send" /\ act.stage # "connect"
    /\ UNCHANGED <<pages, told, hits, allowed>>
    /\ IF Tab.client = 0 THEN FailStage("invalid", wires) /\ UNCHANGED nextId
       ELSE /\ nextId' = [nextId EXCEPT ![act.tool] = @ + 1]
            /\ IF ~wires[Tab.client].up THEN FailStage("io", wires)
               ELSE /\ wires' = [wires EXCEPT ![Tab.client].owed = @ \union {AppendCdpMessage(nextId[act.tool])}]
                    /\ act' = [act EXCEPT !.pc = "receive", !.id = nextId[act.tool], !.tries = 0]
                    /\ UNCHANGED tabs

(* A message is [id, kind, value]: a result, one without the value its     *)
(* stage reads (void), an error, or one that is too long or no JSON (bad). *)
(* Mutant: any message that carries a number is taken for the answer.      *)
CdpResponseAny(message, id) == message.id # 0
CdpResponseMatches(message, id) == message.id = id

(* The deadline of the wait may have passed, if it has one.                *)
DeadlineExpired ==
    \/ act.call.timeout > 0
    \/ IF act.stage = "load" THEN BrowserSettings.navigationTimeout > 0 ELSE BrowserSettings.commandTimeout > 0
Report(values) == told' = {[tab |-> Tab.target, call |-> act.from, value |-> v] : v \in values}

(* What each stage makes of the result that answers it.                    *)
StageResult(value, ws) ==
    LET stage == act.stage
        afterOpen == IF act.tool = "browser_screenshot" THEN GoTo("screenshot") ELSE Finish("ok")
    IN  \/ stage = "close" /\ CloseSession("ok", ws) /\ UNCHANGED <<told, hits, allowed>>
        \/ /\ stage = "create" /\ wires' = ws /\ SetTab([Tab EXCEPT !.target = value.target]) /\ GoTo("attach")
           /\ UNCHANGED <<told, hits, allowed>>
        \/ /\ stage = "attach" /\ wires' = ws /\ SetTab([Tab EXCEPT !.cdp = value.cdp]) /\ GoTo("page")
           /\ UNCHANGED <<told, hits, allowed>>
        \/ /\ stage \in {"page", "runtime", "navigate"} /\ wires' = ws /\ GoTo(AfterStage[stage])
           /\ UNCHANGED <<tabs, told, hits, allowed>>
        \/ /\ stage \in {"load", "select"} /\ wires' = ws /\ UNCHANGED <<tabs, told, hits>>
           /\ \/ /\ value.ready /\ UNCHANGED allowed
                 /\ IF act.call.action = "wait" THEN Finish("ok") ELSE afterOpen
              \/ ~value.ready /\ DeadlineExpired /\ Finish("timeout") /\ UNCHANGED allowed
              \/ ~value.ready /\ GoTo(stage) /\ Spend("polls")
        \/ /\ stage \in {"eval", "markdown"} /\ wires' = ws /\ Report({value.seen}) /\ Finish("ok")
           /\ UNCHANGED <<tabs, hits, allowed>>
        \/ /\ stage = "script" /\ wires' = ws /\ Report({value.seen}) /\ Finish("ok")
           /\ SetTab([ParseSnapshotResult(Tab, value.refs) EXCEPT !.page = value.seen.url])
           /\ UNCHANGED <<hits, allowed>>
        \/ /\ stage = "click" /\ wires' = ws /\ Finish(IF value.hit = 0 THEN "invalid" ELSE "ok")
           /\ hits' = IF value.hit = 0 \/ act.call.target.ref = 0 THEN hits
                      ELSE {[tab |-> Tab, page |-> value.seen.url, ref |-> act.call.target.ref, element |-> value.hit]}
           /\ UNCHANGED <<tabs, told, allowed>>
        \/ /\ stage \in {"screenshot", "plain"} /\ wires' = ws /\ UNCHANGED <<tabs, hits, allowed>>
           /\ LET tooLarge == BrowserSettings.maxBytes > 0 /\ value.bytes > BrowserSettings.maxBytes
                  st == IF value.bytes = 0 \/ tooLarge THEN "parse" ELSE "ok"
              IN  /\ Report(IF st = "ok" THEN {value.seen} ELSE {})
                  /\ IF act.tool = "browser" THEN Finish(st)
                     ELSE act' = [act EXCEPT !.pc = "send", !.stage = "close", !.st = st]

NeedsNoValue == {"page", "runtime", "navigate", "close"}

CdpReceive ==
    LET wire == wires[Tab.client]
        message == Head(wire.in)
        taken == [wires EXCEPT ![Tab.client].in = Tail(@)]
        mine == CdpResponseMatches(message, act.id)
        fails(st) == FailStage(st, taken) /\ UNCHANGED <<told, hits, allowed>>
    IN  /\ act.pc = "receive" /\ wire.in # <<>>
        /\ UNCHANGED <<nextId, pages>>
        /\ \/ message.kind = "bad" /\ fails("parse")
           \/ message.kind # "bad" /\ ~mine /\ act.tries + 1 >= MaxReceives /\ fails("timeout")
           \/ /\ message.kind # "bad" /\ ~mine /\ act.tries + 1 < MaxReceives
              /\ act' = [act EXCEPT !.tries = @ + 1] /\ wires' = taken /\ UNCHANGED <<tabs, told, hits, allowed>>
           \/ message.kind = "error" /\ mine /\ fails("cdp_error")
           \/ message.kind = "void" /\ mine /\ act.stage \notin NeedsNoValue /\ fails("parse")
           \/ /\ message.kind = "result" \/ (message.kind = "void" /\ act.stage \in NeedsNoValue)
              /\ mine /\ StageResult(message.value, taken)

CdpReceiveFails ==
    /\ act.pc = "receive" /\ ~wires[Tab.client].up
    /\ FailStage("io", wires) /\ UNCHANGED <<nextId, pages, told, hits, allowed>>

(* browser_destroy, when the agent goes; the next agent makes its tools    *)
(* anew.                                                                   *)
BrowserDestroy ==
    /\ act.pc = "idle" /\ \E t \in BrowserToolNames : tabs[t] # <<>>
    /\ tabs' = [t \in BrowserToolNames |-> <<>>]
    /\ nextId' = [t \in BrowserToolNames |-> 1]
    /\ wires' = [w \in DOMAIN wires |-> HangUp(wires, w)[w]]
    /\ UNCHANGED <<act, pages, told, hits, allowed>>

(***************************************************************************)
(* The browser.                                                            *)
(***************************************************************************)
NoValue == [target |-> 0, cdp |-> NoTab.cdp, ready |-> FALSE, refs |-> <<>>, hit |-> 0, bytes |-> 0,
               seen |-> [target |-> 0, url |-> NoText, call |-> allowed.calls]]

(* The value the browser reads off the target, or finds when it clicks.    *)
Evaluated(request, ready, bytes) ==
    LET t == request.cdp.target
    IN  [NoValue EXCEPT !.ready = ready, !.bytes = bytes,
            !.refs = Listing(pages[t]),
            !.hit = QuerySelector(ElementsOf(pages[t]), request.selector),
            !.seen = [target |-> t, url |-> pages[t], call |-> allowed.calls]]

Answer(w, request, kind, value) ==
    wires' = [wires EXCEPT ![w].in = Append(@, [id |-> request.id, kind |-> kind, value |-> value]),
                           ![w].owed = @ \ {request}]

(* A script that throws has no value; @n is no selector to wait for.       *)
BrowserAnswers(w, request) ==
    LET attached == request.cdp.wire = w /\ pages[request.cdp.target] # NoText
        exists == IF pages[request.target] # NoText THEN "result" ELSE "error"
        throws == request.stage = "select" /\ request.selector = <<>>
    IN  /\ UNCHANGED <<tabs, nextId, act, told, hits>>
        /\ \/ /\ request.stage = "create" /\ pages' = Append(pages, "about:blank")
              /\ Answer(w, request, "result", [NoValue EXCEPT !.target = Len(pages) + 1]) /\ UNCHANGED allowed
           \/ /\ request.stage = "attach" /\ UNCHANGED <<pages, allowed>>
              /\ Answer(w, request, exists, [NoValue EXCEPT !.cdp = [wire |-> w, target |-> request.target]])
           \/ /\ request.stage = "close" /\ pages' = [pages EXCEPT ![request.target] = NoText]
              /\ Answer(w, request, exists, NoValue) /\ UNCHANGED allowed
           \/ /\ request.stage = "navigate" /\ attached /\ UNCHANGED allowed
              /\ pages' = [pages EXCEPT ![request.cdp.target] = request.url]
              /\ Answer(w, request, "result", NoValue)
           \/ /\ request.stage \notin {"create", "attach", "close", "navigate"} /\ attached
              /\ UNCHANGED <<pages, allowed>>
              /\ \E ready \in (IF request.stage \in {"load", "select"} THEN BOOLEAN ELSE {TRUE}),
                    bytes \in (IF request.method = "Page.captureScreenshot" THEN {1, 9} ELSE {0}) :
                    Answer(w, request, IF throws THEN "void" ELSE "result", Evaluated(request, ready, bytes))
           \/ /\ request.stage \notin {"create", "attach", "close"} /\ UNCHANGED pages
              /\ ~attached \/ request.stage = "markdown"
              /\ Answer(w, request, "error", NoValue) /\ UNCHANGED allowed
           \/ \E kind \in {"error", "void"} :
                 Answer(w, request, kind, NoValue) /\ Spend("faults") /\ UNCHANGED pages

(* An event carries no number; it, too, may be more than the buffer holds. *)
BrowserEvent(w) ==
    /\ wires[w].up
    /\ \E kind \in {"result", "bad"} :
          /\ Spend(IF kind = "bad" THEN "faults" ELSE "events")
          /\ wires' = [wires EXCEPT ![w].in = Append(@, [id |-> 0, kind |-> kind, value |-> NoValue])]
    /\ UNCHANGED <<tabs, nextId, act, pages, told, hits>>

WireBreaks(w) ==
    /\ wires[w].up /\ Spend("faults") /\ wires' = HangUp(wires, w)
    /\ UNCHANGED <<tabs, nextId, act, pages, told, hits>>

PageMoves(t, url) ==
    /\ pages[t] \notin {NoText, "about:blank", url} /\ Spend("moves")
    /\ pages' = [pages EXCEPT ![t] = url]
    /\ UNCHANGED <<tabs, nextId, act, wires, told, hits>>

BrowserNext ==
    \/ \E call \in BrowserCalls : Invoke(call)
    \/ \E found \in Discoveries, up \in BOOLEAN : SessionConnect(found, up)
    \/ CdpSend \/ CdpReceive \/ CdpReceiveFails \/ BrowserDestroy
    \/ \E w \in 1..Len(wires) : \E request \in wires[w].owed : BrowserAnswers(w, request)
    \/ \E w \in 1..Len(wires) : BrowserEvent(w) \/ WireBreaks(w)
    \/ \E t \in 1..Len(pages), url \in DOMAIN Sites \ {"about:blank"} : PageMoves(t, url)

BrowsingSpec == BrowserInit /\ [][BrowserNext]_browserVars

(***************************************************************************)
(* Properties.                                                             *)
(***************************************************************************)
(* What a call reports was read from the target of its own session and     *)
(* while that call ran: an answer that comes after its call has given up   *)
(* (128 messages, a broken websocket) is never taken for the answer to a   *)
(* later request, and a session that takes over the slot of a closed one   *)
(* never reads the other's page (cdp_response_matches, browser_get_or_     *)
(* create_session).                                                        *)
ReportsOwnPage ==
    \A t \in told : t.value.target = t.tab /\ t.value.call = t.call

(* A click on @n that finds the page of the session's last listing         *)
(* unchanged hits the n-th element listed, if the selector written for it  *)
(* matches it and no earlier element of the document: no reference of an   *)
(* earlier snapshot, or of a session that had the slot before, survives    *)
(* (browser_open, parse_snapshot_result).                                  *)
ClickHitsListed ==
    \A h \in hits :
        LET elements == ElementsOf(h.page)
            listed == ControlsOf(h.page)[h.ref]
            named == SelectorOf(elements[listed])
        IN  h.page = h.tab.page /\ Matches(elements[listed], named)
            /\ (\A i \in 1..(listed - 1) : ~Matches(elements[i], named)) => h.element = listed

(* A call of a browser tool reads from and acts on the page of its own     *)
(* session (browser_tool.c).                                               *)
BrowserSound == ReportsOwnPage /\ ClickHitsListed
=============================================================================
