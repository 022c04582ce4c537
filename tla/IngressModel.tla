--------------------------- MODULE IngressModel ----------------------------
(* The instance of Ingress that TLC checks.                                *)
EXTENDS Ingress

NoFile == [id |-> "", type |-> "", size |-> 0, data |-> <<>>, detected |-> ""]
R(id, nonce) ==
    [post |-> TRUE, path |-> "/hook", token |-> "k", ip |-> "a", len |-> 4, json |-> TRUE, event |-> "",
     text |-> "t", id |-> id, sender |-> "", nonce |-> nonce, ts |-> 0, att |-> NoFile]
Png(id) == [id |-> id, type |-> "image/png", size |-> 0, data |-> <<"v", "v", "v", "=">>,
            detected |-> "image/png"]

MCRequests ==
    { R("1", "n1"),
      [R("2", "n2") EXCEPT !.att = Png("f"), !.ts = 2],
      [R("3", "n3") EXCEPT !.att = Png("f"), !.event = "media", !.text = ""],
      [R("4", "") EXCEPT !.att = Png("g"), !.text = ""] }
MCOdd ==
    { [R("5", "") EXCEPT !.att = [Png("h") EXCEPT !.detected = "image/gif"]],
      [R("6", "") EXCEPT !.token = "x"], [R("7", "") EXCEPT !.ip = "z"],
      [R("8", "") EXCEPT !.att = [Png("h") EXCEPT !.data = <<"=", "v">>]] }

MCAllRequests == MCRequests \union MCOdd

MCWebhook == [path |-> "/hook", token |-> "k", ips |-> {"a", "b"}, limit |-> 3, maxBody |-> 0,
              maxMedia |-> 3, window |-> 1]

Sig(header, value) == [header |-> header, value |-> value]
N(path, sigs) ==
    [post |-> TRUE, path |-> path, ip |-> "a", len |-> 2, json |-> TRUE, body |-> "b", random |-> "r",
     fields |-> [x |-> "1"], sigs |-> sigs]
MCNamed ==
    { N("/a", {Sig("x-signature", <<"s", <<"b">>, "hex">>)}), N("/a", {}),
      N("/a", {Sig("x-line-signature", <<"s", <<"b">>, "hex">>)}), N("/b", {}), N("/c", {}) }
E(name, path) ==
    [name |-> name, path |-> path, enabled |-> TRUE, secret |-> "", allow |-> {}, perSecond |-> 2,
     maxBody |-> 0, template |-> <<>>, target |-> [kind |-> "", name |-> ""], reply |-> "status"]
MCEndpoints ==
    << [E("a", "/a") EXCEPT !.secret = "s", !.target.kind = "cron"],
       [E("b", "/b") EXCEPT !.template = <<[payload |-> "no", text |-> "say"], [payload |-> "field", text |-> "x"]>>,
                            !.reply = "inline", !.allow = {"*"}] >>

MCMail == [url |-> "imap", smtp |-> "smtp", to |-> "me", senders |-> {"ann"}, prefix |-> "p", dir |-> "d",
           maxBytes |-> 0]
MCMails ==
    { [id |-> "m1", from |-> "ann", subject |-> "p", body |-> "x", attachment |-> "a", size |-> 1, len |-> 3],
      [id |-> "m2", from |-> "bob", subject |-> "p", body |-> "", attachment |-> "", size |-> 0, len |-> 3] }

NoQuota == [requests |-> 0, named |-> 0, pushes |-> 0, polls |-> 0, mails |-> 0, full |-> 0,
            ticks |-> 0, backs |-> 0, crashes |-> 0, shutdowns |-> 0, allocs |-> 0]

MCQuotas ==
    { [NoQuota EXCEPT !.requests = 5, !.ticks = 2],
      [NoQuota EXCEPT !.requests = 3, !.ticks = 1, !.full = 1, !.backs = 1, !.crashes = 1, !.shutdowns = 1],
      [NoQuota EXCEPT !.requests = 3, !.allocs = 1, !.shutdowns = 1],
      [NoQuota EXCEPT !.named = 4, !.ticks = 1, !.backs = 1],
      [NoQuota EXCEPT !.requests = 1, !.pushes = 3, !.crashes = 1],
      [NoQuota EXCEPT !.pushes = 1, !.polls = 3, !.mails = 3] }
=============================================================================
