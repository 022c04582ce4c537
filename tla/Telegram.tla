------------------------------ MODULE Telegram ------------------------------
(***************************************************************************)
(* The Telegram channel (src/channels/telegram.c) against the service it   *)
(* polls: listening, sending with drafts and fallbacks, and asking for an  *)
(* approval.  Every request is a step of its own, tried again after a      *)
(* transient failure; the service may have acted although the answer was   *)
(* lost.  A crash loses the channel's memory and keeps the temporary files *)
(* and what the service holds.                                             *)
(***************************************************************************)
EXTENDS TelegramWire, SequencesExt

CONSTANTS Updates,    \* the updates of the service, numbered from 1
          Messages,   \* the messages the runtime may send
          Options,    \* the options of the channel
          Window,     \* the length of the rate window
          Budgets     \* bounds of the instance: how many updates arrive, messages
                      \* are sent, approvals asked, requests fail, and crashes happen

ASSUME UpdatesNumbered ==
    /\ Len(Updates) \in Nat /\ DOMAIN Updates = 1..Len(Updates)
    /\ \A i \in DOMAIN Updates : Updates[i].id = i

\* What is sent is text, and the limit of its parts, when there is one, a number.
ASSUME TextsAssumption ==
    /\ "split" \in DOMAIN Options /\ Options.split \in Int
    /\ \A m \in Messages : m.text \in Seq(Bytes)

VARIABLES tg,      \* the telegram_channel
          op,      \* the call that is under way
          held,    \* the update whose inbound message the runtime holds, or 0
          api,     \* the service
          disk,    \* the temporary media files
          fate,    \* what became of each update
          handed,  \* the updates handed to the runtime since the start
          acked,   \* the messages reported as sent
          budget   \* how often the bounded steps may still be taken

telegramVars == <<tg, op, held, api, disk, fate, handed, acked, budget>>

Ch == ChannelNew(Options)
Chats == {m.chat : m \in Messages} \cup {Updates[i].chat : i \in DOMAIN Updates}
NoMessage == [chat |-> 0, thread |-> 0, reply |-> 0, text |-> <<>>, draft |-> FALSE,
              attach |-> "", asDocument |-> FALSE]
NoAsk == [chat |-> 0, thread |-> 0, sender |-> ""]

ChannelAtStart ==
    [offset |-> 0, nextDraft |-> 1, activeDraft |-> 0, lastChat |-> 0, lastThread |-> 0,
     lastId |-> 0, rateOpen |-> FALSE, rateAge |-> 0, rateCount |-> 0, approvalId |-> 0]

Idle == [pc |-> "idle", try |-> 1, body |-> [method |-> "none"], m |-> NoMessage, sent |-> 0,
         ids |-> <<>>, batch |-> <<>>, next |-> 0, cur |-> 0, ask |-> NoAsk, left |-> 0,
         prompt |-> 0]

TelegramInit ==
    /\ Ch.st = "ok"
    /\ tg = ChannelAtStart /\ op = Idle /\ held = 0 /\ disk = {} /\ handed = <<>> /\ acked = {}
    /\ api = [avail |-> 0, confirmed |-> 0, msgs |-> [c \in Chats |-> <<>>]]
    /\ fate = [i \in DOMAIN Updates |-> "none"]
    /\ budget \in Budgets

(***************************************************************************)
(* Requests.  "ok": answered; "lost": acted on, the answer is lost;        *)
(* "down": never arrived; "busy": 408, 429 or 5xx; "refused": another 4xx  *)
(* or an answer that is not ok.                                            *)
(***************************************************************************)
Outcomes == {"ok", "lost", "down", "busy", "refused"}

Multipart(body) == body.method \in {"sendAudio", "sendVoice", "sendPhoto", "sendDocument"}

Retryable(o) == HttpStatusRetryable(o) \/ CurlCodeRetryable(o)

TriesAgain(o) ==
    Retryable(o) /\ op.try <= Ch.maxRetries /\ ~Multipart(op.body)

Happens(o) ==
    /\ o # "ok" => budget.faults > 0
    /\ budget' = [budget EXCEPT !.faults = IF o = "ok" THEN @ ELSE @ - 1]

Shown(body) == [thread |-> IF "thread" \in DOMAIN body THEN body.thread ELSE 0, text |-> body.text]

(* What the service does with a request it gets.                           *)
Served(a, body) ==
    CASE body.method = "getUpdates" ->
           [a EXCEPT !.confirmed = IF body.offset > @ THEN body.offset ELSE @]
      [] body.method = "sendMessage" \/ Multipart(body) ->
           [a EXCEPT !.msgs[body.chat] = Append(@, Shown(body))]
      [] body.method = "editMessageText" ->
           [a EXCEPT !.msgs[body.chat] = IF body.id \in DOMAIN @ THEN [@ EXCEPT ![body.id].text = body.text] ELSE @]
      [] body.method = "deleteMessage" ->
           [a EXCEPT !.msgs[body.chat][body.id].text = <<>>]
      [] OTHER -> a

Request(o, body) ==
    /\ Happens(o)
    /\ api' = IF o \in {"ok", "lost"} THEN Served(api, body) ELSE api

Retry == op' = [op EXCEPT !.try = @ + 1]

(***************************************************************************)
(* Listening: telegram_listen.                                             *)
(***************************************************************************)
Poll(o0) == [o0 EXCEPT !.pc = "getUpdates", !.try = 1]

StartListen ==
    /\ op.pc = "idle" /\ held = 0
    /\ op' = Poll(op)
    /\ UNCHANGED <<tg, held, api, disk, fate, handed, acked, budget>>

(* The text answers the question: any text with "approve" or "yes" in it   *)
(* does, whichever question it was about.                                  *)
Approves(u, id) == u.press = [yes |-> TRUE, id |-> id] \/ "yes" \in u.says
Denies(u, id) == u.press = [yes |-> FALSE, id |-> id] \/ "no" \in u.says

Answered(ask) ==
    LET u == Updates[op.cur]
    IN  /\ ExtractUpdate(u).sender = ask.sender
        /\ Approves(u, tg.approvalId) \/ Denies(u, tg.approvalId)

(* Mutant: the poll's whole batch counts as seen.                          *)
NextOffsetOfBatch(st) ==
    IF st \in {"ok", "timeout"} \/ StatusConsumesUpdate(st)
    THEN IF op.batch = <<>> THEN op.next ELSE Last(op.batch) + 1
    ELSE tg.offset

(* The offset of the next poll.                                            *)
NextOffset(st) ==
    IF st \in {"ok", "timeout"} \/ StatusConsumesUpdate(st) THEN op.next ELSE tg.offset

(* telegram_listen returns st to its caller, the runtime or the wait for   *)
(* an approval.  The wait drops every message that is no answer.           *)
ListenReturns(st, tg1, disk1) ==
    /\ tg' = [tg1 EXCEPT !.offset = NextOffset(st)]
    /\ fate' = IF st = "ok" /\ op.ask = NoAsk THEN [fate EXCEPT ![op.cur] = "handed"]
               ELSE IF st = "ok" THEN [fate EXCEPT ![op.cur] = IF Answered(op.ask) THEN "answer" ELSE "swallowed"]
               ELSE IF StatusConsumesUpdate(st) THEN [fate EXCEPT ![op.cur] = "dropped"]
               ELSE fate
    /\ IF op.ask = NoAsk
       THEN /\ op' = Idle
            /\ held' = IF st = "ok" THEN op.cur ELSE 0
            /\ handed' = IF st = "ok" THEN Append(handed, op.cur) ELSE handed
            /\ disk' = disk1
       ELSE /\ UNCHANGED <<held, handed>>
            /\ disk' = IF st = "ok" THEN disk1 \ {Updates[op.cur].file} ELSE disk1
            /\ op' = CASE st = "ok" /\ Answered(op.ask) -> [op EXCEPT !.pc = "delete", !.try = 1]
                       [] (st = "ok" /\ ~Answered(op.ask)) \/ st = "timeout" -> [op EXCEPT !.pc = "wait", !.cur = 0, !.batch = <<>>]
                       [] OTHER -> Idle

(* What the service answers: the updates it has from an offset on.         *)
BatchFrom(offset) ==
    LET before == IF offset = 0 THEN 0 ELSE offset - 1
    IN  [k \in 1..(api.avail - before) |-> before + k]

GetUpdates(o) ==
    /\ op.pc = "getUpdates"
    /\ Request(o, BuildGetUpdatesUrl(tg.offset))
    /\ IF TriesAgain(o) THEN Retry /\ UNCHANGED <<tg, held, disk, fate, handed>>
       ELSE IF o # "ok" THEN ListenReturns("http_error", tg, disk)
       ELSE /\ op' = [op EXCEPT !.pc = "parse", !.next = tg.offset,
                        !.batch = BatchFrom(api'.confirmed)]
            /\ UNCHANGED <<tg, held, disk, fate, handed>>
    /\ UNCHANGED acked

(* telegram_parse_first_update: the first update of the batch that can be  *)
(* read and is visible, and the offset after the ones before it.           *)
Candidate(i) == ExtractUpdate(Updates[i]).readable /\ UpdateVisible(Ch, Updates[i])
CandidateUpdates == {i \in DOMAIN Updates : Candidate(i)}
FirstOf(batch) == SelectInSeq(batch, LAMBDA i : i \in CandidateUpdates)

OffsetAfterHidden(batch) ==
    LET k == FirstOf(batch)
        hidden == {i \in (IF k = 0 THEN DOMAIN batch ELSE 1..(k - 1)) : ExtractUpdate(Updates[batch[i]]).readable}
    IN  IF hidden = {} THEN tg.offset ELSE 1 + batch[CHOOSE i \in hidden : \A j \in hidden : j <= i]

OffsetAfterAll(batch) ==
    LET n == OffsetAfterHidden(batch)
    IN  IF batch # <<>> /\ Last(batch) > n THEN Last(batch) + 1 ELSE n

(* What the poll passes over.                                              *)
Skipped(batch) ==
    {batch[i] : i \in {j \in DOMAIN batch : FirstOf(batch) = 0 \/ j < FirstOf(batch)}}

WithSkipped ==
    [i \in DOMAIN fate |->
        IF i \in Skipped(op.batch) /\ fate[i] = "none"
        THEN IF ExtractUpdate(Updates[i]).readable THEN "hidden" ELSE "unreadable"
        ELSE fate[i]]

(* Mutant: the window is never opened again.                               *)
RateNeverReopens == ~tg.rateOpen

(* telegram_check_rate_limit.                                              *)
RateOpens == ~tg.rateOpen \/ tg.rateAge >= Window
RateLimited == Ch.rateLimit > 0 /\ ~RateOpens /\ tg.rateCount >= Ch.rateLimit
RateCounted ==
    IF Ch.rateLimit = 0 THEN tg
    ELSE [tg EXCEPT !.rateOpen = TRUE, !.rateAge = IF RateOpens THEN 0 ELSE @,
                    !.rateCount = IF RateOpens THEN 1 ELSE @ + 1]

WantsReaction(u) == Ch.ack /\ (~IsPost(u) \/ Ch.post)

AfterMedia(u) == IF WantsReaction(u) THEN "react" ELSE "deliver"

ParseNothing ==
    /\ op.pc = "parse" /\ FirstOf(op.batch) = 0
    /\ tg' = [tg EXCEPT !.offset = OffsetAfterAll(op.batch)]
    /\ fate' = WithSkipped
    /\ op' = IF op.ask = NoAsk THEN Idle ELSE [op EXCEPT !.pc = "wait", !.batch = <<>>]
    /\ UNCHANGED <<held, api, disk, handed, acked, budget>>

ParseLimited ==
    /\ op.pc = "parse" /\ FirstOf(op.batch) # 0 /\ RateLimited
    /\ op' = Idle /\ fate' = WithSkipped
    /\ UNCHANGED <<tg, held, api, disk, handed, acked, budget>>

ParseCandidate ==
    /\ op.pc = "parse" /\ FirstOf(op.batch) # 0 /\ ~RateLimited
    /\ LET i == op.batch[FirstOf(op.batch)]
           u == Updates[i]
       IN  /\ op' = [op EXCEPT !.cur = i, !.next = i + 1, !.try = 1,
                       !.pc = IF u.file = "none" THEN AfterMedia(u)
                              ELSE IF u.size > Ch.maxMedia THEN "too_large" ELSE "getFile"]
           /\ tg' = RateCounted
    /\ fate' = WithSkipped
    /\ UNCHANGED <<held, api, disk, handed, acked, budget>>

DeclaredTooLarge ==
    /\ op.pc = "too_large"
    /\ ListenReturns("too_large", tg, disk)
    /\ UNCHANGED <<api, acked, budget>>

GetFile(o) ==
    /\ op.pc = "getFile"
    /\ Request(o, BuildGetFileUrl(Updates[op.cur].file))
    /\ IF TriesAgain(o) THEN Retry /\ UNCHANGED <<tg, held, disk, fate, handed>>
       ELSE IF o # "ok" THEN ListenReturns("http_error", tg, disk)
       ELSE op' = [op EXCEPT !.pc = "download", !.try = 1] /\ UNCHANGED <<tg, held, disk, fate, handed>>
    /\ UNCHANGED acked

Download(o) ==
    /\ op.pc = "download"
    /\ Request(o, BuildDownloadFileUrl(Updates[op.cur].file))
    /\ LET u == Updates[op.cur]
       IN  IF TriesAgain(o) THEN Retry /\ UNCHANGED <<tg, held, disk, fate, handed>>
           ELSE IF o # "ok" \/ u.bytes > Ch.maxResponse THEN ListenReturns("http_error", tg, disk)
           ELSE op' = [op EXCEPT !.pc = "store"] /\ UNCHANGED <<tg, held, disk, fate, handed>>
    /\ UNCHANGED acked

(* The file is written; when the disk is full a part of it stays.          *)
Store ==
    /\ op.pc = "store"
    /\ LET u  == Updates[op.cur]
           st == StoreMediaBytes(Ch, u, disk)
       IN  IF st # "ok" THEN ListenReturns(st, tg, disk) /\ UNCHANGED budget
           ELSE \/ /\ op' = [op EXCEPT !.pc = AfterMedia(u), !.try = 1]
                   /\ disk' = disk \cup {u.file}
                   /\ UNCHANGED <<tg, held, fate, handed, budget>>
                \/ Happens("full") /\ ListenReturns("write_failed", tg, disk \cup {u.file})
    /\ UNCHANGED <<api, acked>>

React(o) ==
    /\ op.pc = "react"
    /\ Request(o, BuildReactionBody(Updates[op.cur]))
    /\ IF TriesAgain(o) THEN Retry ELSE op' = [op EXCEPT !.pc = "deliver"]
    /\ UNCHANGED <<tg, held, disk, fate, handed, acked>>

Deliver ==
    /\ op.pc = "deliver"
    /\ ListenReturns("ok", tg, disk)
    /\ UNCHANGED <<api, acked, budget>>

(* sc_channel_inbound_clear: the runtime is done with the message.         *)
InboundClear ==
    /\ held # 0 /\ op.pc = "idle"
    /\ held' = 0
    /\ disk' = disk \ {Updates[held].file}
    /\ UNCHANGED <<tg, op, api, fate, handed, acked, budget>>

(***************************************************************************)
(* Asking for an approval: telegram_request_approval.                      *)
(***************************************************************************)
StartApproval ==
    /\ op.pc = "idle" /\ held # 0 /\ budget.asks > 0
    /\ LET u   == ExtractUpdate(Updates[held])
           ask == [chat |-> u.chat, thread |-> 0, sender |-> u.sender]
       IN  op' = [Idle EXCEPT !.pc = "ask", !.ask = ask,
                    !.body = BuildApprovalBody(ask, tg.approvalId + 1)]
    /\ tg' = [tg EXCEPT !.approvalId = @ + 1]
    /\ budget' = [budget EXCEPT !.asks = @ - 1]
    /\ UNCHANGED <<held, api, disk, fate, handed, acked>>

(* telegram_send_approval_message.                                         *)
Ask(o) ==
    /\ op.pc = "ask"
    /\ Request(o, op.body)
    /\ IF TriesAgain(o) THEN Retry
       ELSE op' = IF o # "ok" THEN Idle
                  ELSE [op EXCEPT !.pc = "wait", !.left = Ch.approvalTimeout,
                                  !.prompt = Len(api'.msgs[op.ask.chat])]
    /\ UNCHANGED <<tg, held, disk, fate, handed, acked>>

(* The wait polls until the deadline has passed.                           *)
WaitPoll ==
    /\ op.pc = "wait" /\ op.left >= 0
    /\ op' = Poll(op)
    /\ UNCHANGED <<tg, held, api, disk, fate, handed, acked, budget>>

WaitEnds ==
    /\ op.pc = "wait" /\ op.left < 0
    /\ op' = Idle
    /\ UNCHANGED <<tg, held, api, disk, fate, handed, acked, budget>>

DeletePrompt(o) ==
    /\ op.pc = "delete"
    /\ Request(o, BuildDeleteMessageBody(op.ask.chat, op.prompt))
    /\ IF TriesAgain(o) THEN Retry ELSE op' = Idle
    /\ UNCHANGED <<tg, held, disk, fate, handed, acked>>

(***************************************************************************)
(* Sending: telegram_send.                                                 *)
(***************************************************************************)
StartSend(m) ==
    /\ op.pc = "idle" /\ budget.sends > 0
    /\ budget' = [budget EXCEPT !.sends = @ - 1]
    /\ op' = LET o1 == [Idle EXCEPT !.m = m]
             IN  IF m.draft /\ (StreamModeIsOff(Ch) \/ IsPlaceholderDraft(m))
                 THEN [o1 EXCEPT !.pc = "typing", !.body = BuildChatActionBody(m)]
                 ELSE IF ~m.draft /\ m.attach # ""
                 THEN [o1 EXCEPT !.pc = "attach", !.body = SendAttachment(m)]
                 ELSE [o1 EXCEPT !.pc = IF m.text = <<>> THEN "empty" ELSE "chunk",
                                 !.body = BuildSendBody(m, <<>>)]
    /\ UNCHANGED <<tg, held, api, disk, fate, handed, acked>>

(* telegram_send_chat_action: the result is ignored.                       *)
SendChatAction(o) ==
    /\ op.pc = "typing"
    /\ Request(o, op.body)
    /\ IF TriesAgain(o) THEN Retry ELSE op' = Idle
    /\ UNCHANGED <<tg, held, disk, fate, handed, acked>>

(* An attachment is tried once; a photo may then go as a document.         *)
PostAttachment(o) ==
    /\ op.pc = "attach"
    /\ Request(o, op.body)
    /\ op' = IF o = "ok"
             THEN IF op.m.text = <<>> THEN Idle ELSE [op EXCEPT !.pc = "chunk"]
             ELSE IF op.body.method = "sendPhoto" /\ PhotoStatusAllowsDocumentFallback(UploadStatus(o))
             THEN [op EXCEPT !.body = BuildDocumentBody(op.m)]
             ELSE Idle
    /\ UNCHANGED <<tg, held, disk, fate, handed, acked>>

PostEmpty(o) ==
    /\ op.pc = "empty"
    /\ Request(o, op.body)
    /\ IF TriesAgain(o) THEN Retry ELSE op' = Idle
    /\ UNCHANGED <<tg, held, disk, fate, handed, acked>>

SameMessageTarget(m) == tg.lastChat = m.chat /\ tg.lastThread = m.thread

Chunk == SubSeq(op.m.text, op.sent + 1, op.sent + NextTextChunk(Ch, op.m.text, op.sent))

(* The next chunk as a draft, as the edit of the draft message, or as a    *)
(* message.                                                                *)
NextChunk ==
    /\ op.pc = "chunk" /\ op.sent < Len(op.m.text)
    /\ LET m   == op.m
           new == ~SameMessageTarget(m) \/ tg.activeDraft = 0
           id  == IF new THEN tg.nextDraft ELSE tg.activeDraft
       IN  IF m.draft
           THEN /\ op' = [op EXCEPT !.pc = "post", !.try = 1, !.body = BuildMessageDraftBody(m, Chunk, id)]
                /\ tg' = [tg EXCEPT !.activeDraft = id, !.nextDraft = IF new THEN @ + 1 ELSE @]
           ELSE /\ op' = [op EXCEPT !.pc = "post", !.try = 1,
                            !.body = IF SameMessageTarget(m) /\ tg.lastId # 0
                                     THEN BuildEditBody(m, Chunk, tg.lastId)
                                     ELSE BuildSendBody(m, Chunk)]
                /\ UNCHANGED tg
    /\ UNCHANGED <<held, api, disk, fate, handed, acked, budget>>

(* Mutant: a final message does not end the draft.                         *)
RememberDraftKept(id) ==
    IF op.m.draft THEN [tg EXCEPT !.lastChat = op.m.chat, !.lastThread = op.m.thread, !.lastId = id]
    ELSE [tg EXCEPT !.activeDraft = 0]

ForgetDraft == [tg EXCEPT !.activeDraft = 0, !.lastChat = 0, !.lastThread = 0, !.lastId = 0]

(* What the channel remembers after a chunk has been accepted.             *)
RememberDraft(id) ==
    IF op.m.draft
    THEN [tg EXCEPT !.lastChat = op.m.chat, !.lastThread = op.m.thread,
                    !.lastId = IF op.body.method = "sendMessageDraft" THEN 0 ELSE id]
    ELSE ForgetDraft

Post(o) ==
    /\ op.pc = "post"
    /\ Request(o, op.body)
    /\ LET id == IF op.body.method = "editMessageText" THEN op.body.id
                 ELSE Len(api'.msgs[op.m.chat])
       IN  CASE TriesAgain(o) -> Retry /\ UNCHANGED tg
             [] ~TriesAgain(o) /\ o = "ok" ->
                  /\ op' = [op EXCEPT !.pc = "chunk", !.sent = @ + Len(op.body.text),
                                      !.ids = Append(@, id)]
                  /\ tg' = RememberDraft(id)
             [] ~TriesAgain(o) /\ o # "ok" /\ op.body.method # "sendMessage" ->
                  /\ op' = [op EXCEPT !.try = 1, !.body = BuildSendBody(op.m, op.body.text)]
                  /\ tg' = ForgetDraft
             [] OTHER -> op' = Idle /\ UNCHANGED tg
    /\ UNCHANGED <<held, disk, fate, handed, acked>>

SendReturns ==
    /\ op.pc = "chunk" /\ op.sent >= Len(op.m.text)
    /\ op' = Idle
    /\ acked' = IF op.m.draft THEN acked
                ELSE acked \cup {[chat |-> op.m.chat, thread |-> op.m.thread,
                                  ids |-> op.ids, text |-> op.m.text]}
    /\ UNCHANGED <<tg, held, api, disk, fate, handed, budget>>

(***************************************************************************)
(* The service, the clock and the crash.                                   *)
(***************************************************************************)
Arrive ==
    /\ api.avail < Len(Updates) /\ budget.arrivals > 0
    /\ Updates[api.avail + 1].press.id = 0 \/ \E c \in Chats : api.msgs[c] # <<>>
    /\ api' = [api EXCEPT !.avail = @ + 1]
    /\ budget' = [budget EXCEPT !.arrivals = @ - 1]
    /\ UNCHANGED <<tg, op, held, disk, fate, handed, acked>>

Tick ==
    /\ \/ op.pc = "wait" /\ op.left >= 0
       \/ tg.rateOpen /\ tg.rateAge < Window
    /\ tg' = [tg EXCEPT !.rateAge = IF tg.rateOpen /\ @ < Window THEN @ + 1 ELSE @]
    /\ op' = [op EXCEPT !.left = IF op.ask # NoAsk /\ @ >= 0 THEN @ - 1 ELSE @]
    /\ UNCHANGED <<held, api, disk, fate, handed, acked, budget>>

Crash ==
    /\ budget.crashes > 0
    /\ budget' = [budget EXCEPT !.crashes = @ - 1]
    /\ tg' = ChannelAtStart /\ op' = Idle /\ held' = 0 /\ handed' = <<>>
    /\ UNCHANGED <<api, disk, fate, acked>>

Step(o) ==
    \/ GetUpdates(o) \/ GetFile(o) \/ Download(o) \/ React(o) \/ Ask(o) \/ DeletePrompt(o)
    \/ SendChatAction(o) \/ PostAttachment(o) \/ PostEmpty(o) \/ Post(o)

Work ==
    \/ StartListen \/ ParseNothing \/ ParseLimited \/ ParseCandidate \/ DeclaredTooLarge
    \/ Store \/ Deliver \/ InboundClear \/ WaitPoll \/ WaitEnds \/ NextChunk \/ SendReturns
    \/ \E o \in Outcomes : Step(o)

TelegramNext ==
    \/ Work \/ Arrive \/ Tick \/ Crash \/ StartApproval
    \/ \E m \in Messages : StartSend(m)

TelegramSpec == TelegramInit /\ [][TelegramNext]_telegramVars

(* The loop keeps polling, the runtime finishes with every message, the    *)
(* clock moves, and requests fail only so often.                 *)
TelegramFairness == WF_telegramVars(Work) /\ WF_telegramVars(Tick)

FairTelegramSpec == TelegramSpec /\ TelegramFairness

(***************************************************************************)
(* Properties.                                                             *)
(***************************************************************************)

(* The service forgets an update when it sees a greater offset.  Whatever  *)
(* fails or crashes, by then the channel has handed it to the runtime or   *)
(* decided about it (telegram_listen, telegram_parse_first_update).        *)
ConfirmedWasHandled ==
    \A i \in DOMAIN Updates : i < api.confirmed => fate[i] # "none"

(* Between two starts the runtime gets each update once, oldest first.     *)
HandedInOrder ==
    \A i, j \in DOMAIN handed : i < j => handed[i] < handed[j]

(* No update is lost and none is taken twice or out of turn                *)
(* (telegram_listen).                                                      *)
UpdatesTaken == ConfirmedWasHandled /\ HandedInOrder

(* A message reported as sent stands in its chat, complete and in order,   *)
(* whatever drafts, edits, fallbacks and repeated requests follow          *)
(* (telegram_send, telegram_next_text_chunk).                              *)
SentStands ==
    \A a \in acked :
        /\ FlattenSeq([k \in DOMAIN a.ids |-> api.msgs[a.chat][a.ids[k]].text]) = a.text
        /\ \A k \in DOMAIN a.ids : k > 1 => a.ids[k - 1] < a.ids[k]

(* The update at the head whose file can never be stored: a file left by a *)
(* crash or a full disk, or content the screening refuses.                 *)
Poisoned ==
    \E i \in 1..api.avail :
        LET u == Updates[i]
        IN  /\ u.file # "none" /\ u.size <= Ch.maxMedia /\ u.id >= api.confirmed
            /\ \/ u.bytes > Ch.maxResponse
               \/ /\ StoreMediaBytes(Ch, u, disk) # "ok"
                  /\ ~StatusConsumesUpdate(StoreMediaBytes(Ch, u, disk))

(* The channel never falls behind for good: time and again every update    *)
(* the service has is dealt with, unless the media of one blocks the queue *)
(* (telegram_check_rate_limit, telegram_status_consumes_update).           *)
EveryUpdateSettled ==
    []<>(Poisoned \/ \A i \in 1..api.avail : fate[i] # "none")
=============================================================================
