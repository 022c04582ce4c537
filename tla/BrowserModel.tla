---------------------------- MODULE BrowserModel ----------------------------
(* The instance of Browser that TLC checks.                                *)
EXTENDS Browser

Ask(action) ==
    [tool |-> "browser", action |-> action, url |-> "", target |-> [ref |-> 0, css |-> <<>>], session |-> "",
     timeout |-> 0, format |-> "", cancelled |-> FALSE, permitted |-> TRUE,
     parses |-> TRUE]
Visit(url) == [Ask("open") EXCEPT !.url = url, !.timeout = 1]
MCBrowserCalls ==
    { Visit("a"), [Visit("b") EXCEPT !.session = "s"], Ask("title"), Ask("snapshot"), Ask("screenshot"), Ask("close"),
      [Ask("click") EXCEPT !.target.ref = 2], [Ask("wait") EXCEPT !.target.css = <<"load">>],
      [Visit("b") EXCEPT !.tool = "browser_screenshot", !.action = "", !.format = "photo"],
      Ask("diagnose"), [Ask("open") EXCEPT !.url = "c"] }
Element(id, tag) == [id |-> id, classes |-> {}, name |-> "", tag |-> tag]
(* Page b has an element that is not listed, and one whose id has a dot:   *)
(* the selector of the second matches the first.                           *)
MCSites ==
    [u \in {"a", "b", "about:blank"} |->
        CASE u = "a" -> [elements |-> <<Element(<<"x">>, "p"), Element(<<"y">>, "a"),
                                        [Element(<<>>, "a") EXCEPT !.name = "n"]>>, controls |-> <<2, 3>>]
          [] u = "b" -> [elements |-> <<[Element(<<"y">>, "p") EXCEPT !.classes = {"k"}], Element(<<"x">>, "a"),
                                        Element(<<"y", "k">>, "a"), Element(<<>>, "a")>>, controls |-> <<2, 3, 4>>]
          [] OTHER -> [elements |-> <<>>, controls |-> <<>>]]
Endpoint(scheme, bare) == [scheme |-> scheme, host |-> "loopback", bare |-> bare]
MCSettings ==
    [enabled |-> TRUE, domains |-> {"a", "b"}, requireLoopback |-> TRUE, cdp |-> Endpoint("ws", TRUE),
     version |-> Endpoint("http", FALSE), maxBytes |-> 4, navigationTimeout |-> 1, commandTimeout |-> 1]
MCDiscoveries ==
    {[st |-> "ok", url |-> Endpoint("ws", FALSE)], [st |-> "ok", url |-> [Endpoint("ws", FALSE) EXCEPT !.host = "far"]]}
MCBrowserBudgets ==
    { [calls |-> 4, events |-> 0, faults |-> 0, polls |-> 0, moves |-> 1],
      [calls |-> 3, events |-> 2, faults |-> 0, polls |-> 0, moves |-> 0],
      [calls |-> 2, events |-> 2, faults |-> 0, polls |-> 1, moves |-> 0],
      [calls |-> 2, events |-> 0, faults |-> 1, polls |-> 0, moves |-> 0] }
=============================================================================
