--------------------------- MODULE TelegramModel ---------------------------
(* The instance of Telegram that TLC checks.                               *)
EXTENDS Telegram

U(i, kind) ==
    [id |-> i, kind |-> kind, text |-> "text", says |-> {}, press |-> [yes |-> FALSE, id |-> 0],
     chat |-> 1, from |-> 0, username |-> "ann", private |-> TRUE, mention |-> FALSE,
     file |-> "none", media |-> "", detected |-> "", size |-> 0, bytes |-> 0]

MCUpdates ==
    << U(1, "message"),
       U(2, "my_chat_member"),
       [U(3, "callback") EXCEPT !.says = {"yes"}, !.press = [yes |-> TRUE, id |-> 1]],
       [U(4, "message") EXCEPT !.text = "", !.file = "f", !.media = "image",
                               !.detected = "image/jpeg", !.size = 2, !.bytes = 2],
       [U(5, "message") EXCEPT !.file = "g", !.media = "video/mp4", !.size = 9, !.bytes = 9],
       [U(6, "message") EXCEPT !.private = FALSE] >>

M(text, draft) ==
    [chat |-> 1, thread |-> 0, reply |-> 0, text |-> text, draft |-> draft, attach |-> "",
     asDocument |-> FALSE]

MCMessages ==
    { M(<<"a", "L", "C", "t">>, FALSE), M(<<"a", "a">>, TRUE),
      M(Placeholder, TRUE), M(<<>>, FALSE),
      [M(<<"a", "a">>, FALSE) EXCEPT !.attach = "image/png"] }

MCOptions ==
    [token |-> "t", split |-> 5, maxMedia |-> 0, maxResponse |-> 0, approvalTimeout |-> 1,
     streamMode |-> "partial", parseMode |-> "", username |-> "bot", maxRetries |-> 1,
     rateLimit |-> 1, mentionOnly |-> TRUE, ack |-> TRUE, post |-> FALSE]

B(arrivals, sends, asks, faults, crashes) ==
    [arrivals |-> arrivals, sends |-> sends, asks |-> asks, faults |-> faults, crashes |-> crashes]

MCBudgets == { B(6, 0, 1, 1, 1), B(0, 3, 0, 2, 0), B(1, 2, 1, 1, 0) }
=============================================================================
