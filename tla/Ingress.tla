------------------------------ MODULE Ingress ------------------------------
(* The ways into smolclaw besides Telegram and ACP: the webhook channel    *)
(* with its rate limit, replay check and temporary media, the router of    *)
(* named webhooks, the mail channel, and the in-memory transports          *)
(* (channels/orchestrator.c, channels/webhooks.c).  The orchestrator is    *)
(* seen as the listener that takes messages and clears them when done.     *)
EXTENDS Integers, Sequences, FiniteSets, SequencesExt

CONSTANTS
    Requests,      \* the HTTP requests that may arrive at the webhook
    WebhookOptions,
    Named,         \* the requests that may arrive at the router
    Endpoints,     \* the options of the named webhooks, in the order added
    MailOptions,
    Mails,         \* what the mail server may hold
    MaxNonces,     \* 1024 in the code
    Minute,        \* the length of the rate window
    MaxClock,
    IngressBudgets

ASSUME IngressAssumption == MaxNonces \in Nat \ {0} /\ Minute \in Nat \ {0}

VARIABLES
    hook,     \* webhook_channel
    mail,     \* mail_channel and the server behind it
    bus,      \* the transport channel: a queue in each direction
    ends,     \* the rate state of each named webhook
    results,  \* what the router has dispatched
    tmp,      \* the files of the temporary directory
    held,     \* the messages the orchestrator has taken and not yet cleared
    record,   \* what each channel accepted and handed over, in order
    now,      \* the wall clock
    quota     \* what may still happen, to keep the instance finite

ingressVars == <<hook, mail, bus, ends, results, tmp, held, record, now, quota>>

IngressChannels == {"webhook", "mail", "transport"}

----------------------------------------------------------------------------
(* Creation.                                                               *)
Default(value, other) == IF value = 0 THEN other ELSE value

WebhookNew(o) ==
    [path |-> o.path, token |-> o.token, ips |-> o.ips, limit |-> o.limit,
     maxBody |-> Default(o.maxBody, 8), maxMedia |-> o.maxMedia,
     window |-> Default(o.window, 300), start |-> 0, count |-> 0, nonces |-> <<>>, inbox |-> <<>>,
     freed |-> FALSE]       \* whether a queued message's memory was freed under the queue

MailNew(o) ==
    [url |-> o.url, smtp |-> o.smtp, to |-> o.to, senders |-> o.senders, prefix |-> o.prefix,
     dir |-> o.dir, maxBytes |-> Default(o.maxBytes, 8), inbox |-> <<>>, sent |-> <<>>]

TransportNew(o) ==
    IF o.endpoint = "" THEN [st |-> "invalid", inbox |-> <<>>, sent |-> <<>>]
    ELSE [st |-> "ok", inbox |-> <<>>, sent |-> <<>>]

(* Matrix, Mattermost, Line, Nextcloud Talk, Discord, Slack and Signal are *)
(* transports; Matrix with encryption needs a device.                      *)
PlatformChannelNew(o) ==
    IF o.kind = "matrix" /\ o.e2ee /\ o.device = ""
    THEN [st |-> "device_id_required", inbox |-> <<>>, sent |-> <<>>]
    ELSE TransportNew(o)

RabbitmqVendorNew(o) ==
    IF o.url = "" \/ o.queue = "" THEN [st |-> "invalid", inbox |-> <<>>, sent |-> <<>>]
    ELSE [st |-> "ok", inbox |-> <<>>, sent |-> <<>>]

EndpointCopy(o) ==
    [o EXCEPT !.perSecond = Default(@, 10), !.maxBody = Default(@, 8)]

RouterAdd(list, o) == IF o.name = "" \/ o.path = "" THEN list ELSE Append(list, EndpointCopy(o))

Router == FoldLeft(RouterAdd, <<>>, Endpoints)

IngressInit ==
    /\ hook = WebhookNew(WebhookOptions)
    /\ mail = [ch |-> MailNew(MailOptions), box |-> <<>>, delivered |-> <<>>]
    /\ bus = PlatformChannelNew([kind |-> "matrix", e2ee |-> TRUE, device |-> "d",
                                 endpoint |-> "https://matrix"])
    /\ ends = [i \in DOMAIN Router |-> [second |-> 0, count |-> 0]]
    /\ results = {}
    /\ tmp = {} /\ held = {}
    /\ record = [c \in IngressChannels |-> [accepted |-> <<>>, handed |-> <<>>, nonces |-> <<>>]]
    /\ now = 1
    /\ quota \in IngressBudgets

----------------------------------------------------------------------------
(* A list that is empty or holds "*" allows everyone.                      *)
ContainsWildcardOrValue(list, v) == list = {} \/ "*" \in list \/ v \in list

(* The early answers of sc_channel_webhook_ingest.                         *)
WebhookGate(h, r) ==
    CASE ~r.post \/ r.path # h.path                          -> "request_rejected"
      [] r.post /\ r.path = h.path /\ h.token # "" /\ r.token # h.token
                                                             -> "auth_denied"
      [] r.post /\ r.path = h.path /\ h.token \in {"", r.token} /\ r.len > h.maxBody
                                                             -> "body_too_large"
      [] OTHER -> IF ContainsWildcardOrValue(h.ips, r.ip) THEN "ok" ELSE "ip_denied"

(* A window opens with the first request and again after a minute; a clock *)
(* set back only makes the window longer.                                  *)
RateWindow(h) ==
    IF h.start = 0 \/ now - h.start >= Minute THEN [h EXCEPT !.start = now, !.count = 0] ELSE h

WebhookCheckRateLimit(h) ==
    IF h.limit = 0 THEN [st |-> "ok", h |-> h]
    ELSE LET w == RateWindow(h)
         IN  IF w.count >= w.limit THEN [st |-> "rate_limited", h |-> w]
             ELSE [st |-> "ok", h |-> [w EXCEPT !.count = @ + 1]]

Base64Value(c) == c \in {"v"}       \* the letters, digits, + and /

(* Four symbols make three bytes; nothing follows the padding.             *)
Base64Decode(data) ==
    LET syms == SelectSeq(data, LAMBDA c : c # " ")
        pad  == {i \in DOMAIN syms : syms[i] = "="}
        vals == SelectSeq(syms, LAMBDA c : c # "=")
        bad  == \E i \in DOMAIN syms : /\ i \notin pad
                                       /\ ~Base64Value(syms[i]) \/ \E p \in pad : p < i
    IN  IF bad THEN -1 ELSE (Len(vals) * 6) \div 8

(* What the first bytes say: "" when they say nothing.                     *)
DetectType(att) == att.detected
MediaTypesMatch(att) == DetectType(att) \in {"", att.type}

WebhookScreenMedia(att) ==
    IF att.type \in {"audio/wav", "audio/x-wav"} /\ DetectType(att) # "audio/wav"
    THEN "malformed" ELSE "ok"

(* Mutant: an existing file is overwritten, and nothing else is checked.   *)
StoreMediaAnew(h, att, files, full) ==
    [st |-> IF Base64Decode(att.data) > 0 THEN "ok" ELSE "base64_invalid", size |-> 1,
     files |-> files \union {att.id}]

(* The decoded attachment becomes a new file named by the sender's id; a   *)
(* disk that is full leaves the part that was written.                     *)
WebhookStoreMedia(h, att, files, full) ==
    LET n == Base64Decode(att.data)
        st == CASE n = -1                                        -> "base64_invalid"
                [] n = 0                                         -> "base64_empty"
                [] n > 0 /\ ~MediaTypesMatch(att)                -> "media_type_mismatch"
                [] n > 0 /\ MediaTypesMatch(att) /\ h.maxMedia > 0 /\ n > h.maxMedia -> "too_large"
                [] OTHER -> IF WebhookScreenMedia(att) # "ok" THEN WebhookScreenMedia(att)
                            ELSE IF att.id = "" THEN "unsafe_id"
                            ELSE IF att.id \in files THEN "open_failed"
                            ELSE IF full THEN "write_failed" ELSE "ok"
    IN  [st |-> st, size |-> n,
         files |-> IF st \in {"ok", "write_failed"} THEN files \union {att.id} ELSE files]

EventType(r) == IF r.event = "" THEN "message" ELSE r.event

(* The checks of parse_webhook_body before the attachment is written.      *)
BodyRefused(h, r) ==
    LET a == r.att
    IN  CASE ~r.json                                     -> "invalid_json"
          [] r.json /\ EventType(r) \notin {"message", "media"} -> "unsupported_event_type"
          [] r.json /\ EventType(r) \in {"message", "media"} /\ a.size < 0
                                                         -> "attachment_size_invalid"
          [] r.json /\ EventType(r) \in {"message", "media"} /\ h.maxMedia > 0 /\ a.size > h.maxMedia
                                                         -> "media_too_large"
          [] OTHER ->
               IF /\ EventType(r) = "media" \/ a.size > 0 \/ a.data # <<>>
                  /\ a.type = ""
               THEN "media_type_missing" ELSE "ok"

(* parse_webhook_body: the message, and the temporary directory after it.  *)
(* The text is only looked at once the attachment is on disk.              *)
ParseWebhookBody(h, r, files, full) ==
    LET stored == IF r.att.data = <<>> THEN [st |-> "ok", size |-> 0, files |-> files]
                  ELSE WebhookStoreMedia(h, r.att, files, full)
        st == IF BodyRefused(h, r) # "ok" THEN BodyRefused(h, r)
              ELSE IF stored.st # "ok" THEN stored.st
              ELSE IF r.text = "" /\ EventType(r) # "media" THEN "text_missing" ELSE "ok"
        file == IF st = "ok" /\ r.att.data # <<>> THEN r.att.id ELSE ""
    IN  [st |-> st,
         files |-> IF BodyRefused(h, r) = "ok" THEN stored.files ELSE files,
         in |-> [id |-> IF r.id = "" THEN "webhook" ELSE r.id,
                 sender |-> IF r.sender # "" THEN r.sender ELSE IF r.ip = "" THEN "webhook" ELSE r.ip,
                 text |-> IF r.text = "" THEN "[media]" ELSE r.text,
                 file |-> file, size |-> IF stored.size = 0 THEN r.att.size ELSE stored.size,
                 trusted |-> r.ts > 0, temporary |-> file # ""]]

(* A message with a time is refused outside the window, one with a nonce   *)
(* when the nonce is still remembered.                                     *)
WebhookCheckReplay(h, r) ==
    CASE r.ts > 0 /\ (r.ts > now + h.window \/ r.ts < now - h.window) -> "replay_window_denied"
      [] ~(r.ts > 0 /\ (r.ts > now + h.window \/ r.ts < now - h.window))
         /\ r.nonce # "" /\ r.nonce \in ToSet(h.nonces)                -> "replay_denied"
      [] OTHER -> "ok"

WebhookForgetNonceAt(nonces, i) == RemoveAt(nonces, i)

WebhookMakeRoom(nonces) ==
    IF Len(nonces) >= MaxNonces THEN WebhookForgetNonceAt(nonces, 1) ELSE nonces

WebhookRememberNonce(h, nonce) ==
    IF nonce = "" THEN h ELSE [h EXCEPT !.nonces = Append(WebhookMakeRoom(@), nonce)]

(* The copy of a message that a queue keeps, and the one a listener gets:  *)
(* the file changes hands with it.                                         *)
StoredInboundFromPublic(in) == in
PublicInboundFromStored(stored) == stored

(* Clearing a message removes the file it owns.                            *)
InboundClear(in, files) == IF in.temporary THEN files \ {in.file} ELSE files

Note(c, in) == [record EXCEPT ![c].accepted = Append(@, in.id)]

----------------------------------------------------------------------------
(* sc_channel_webhook_ingest.                                              *)
(* The directory after a request whose message is not queued.              *)
AfterRefusal(h, parsed) == InboundClear(parsed.in, parsed.files)

(* The memory may run out while the message is copied into the queue       *)
(* (fails = "store": nothing is queued) or while its nonce is remembered   *)
(* (fails = "nonce"): then room was made for the nonce, and the copy that  *)
(* is already in the queue is cleared with its file and stays there.       *)
Ingest(r, full, fails) ==
    LET rate   == WebhookCheckRateLimit(hook)
        parsed == ParseWebhookBody(hook, r, tmp, full)
        replay == WebhookCheckReplay(hook, r)
        in     == StoredInboundFromPublic(parsed.in)
    IN  /\ quota.requests > 0 /\ (full => quota.full > 0) /\ (fails # "no" => quota.allocs > 0)
        /\ quota' = [quota EXCEPT !.requests = @ - 1, !.full = @ - (IF full THEN 1 ELSE 0),
                                   !.allocs = @ - (IF fails # "no" THEN 1 ELSE 0)]
        /\ \/ /\ WebhookGate(hook, r) # "ok"
              /\ UNCHANGED <<hook, tmp, record>>
           \/ /\ WebhookGate(hook, r) = "ok" /\ rate.st # "ok"
              /\ hook' = rate.h /\ UNCHANGED <<tmp, record>>
           \/ /\ WebhookGate(hook, r) = "ok" /\ rate.st = "ok" /\ parsed.st # "ok"
              /\ hook' = rate.h /\ tmp' = parsed.files /\ UNCHANGED record
           \/ /\ WebhookGate(hook, r) = "ok" /\ rate.st = "ok" /\ parsed.st = "ok"
              /\ replay # "ok" \/ fails = "store"
              /\ hook' = rate.h /\ tmp' = AfterRefusal(hook, parsed) /\ UNCHANGED record
           \/ /\ WebhookGate(hook, r) = "ok" /\ rate.st = "ok" /\ parsed.st = "ok" /\ replay = "ok"
              /\ fails = "nonce" /\ r.nonce # ""
              /\ hook' = [rate.h EXCEPT !.inbox = Append(@, in), !.nonces = WebhookMakeRoom(@), !.freed = TRUE]
              /\ tmp' = InboundClear(in, parsed.files)
              /\ record' = Note("webhook", in)
           \/ /\ WebhookGate(hook, r) = "ok" /\ rate.st = "ok" /\ parsed.st = "ok" /\ replay = "ok"
              /\ fails = "no"
              /\ hook' = WebhookRememberNonce([rate.h EXCEPT !.inbox = Append(@, in)], r.nonce)
              /\ tmp' = parsed.files
              /\ record' = [Note("webhook", in) EXCEPT !["webhook"].nonces =
                                IF r.nonce = "" THEN @ ELSE Append(@, r.nonce)]
        /\ UNCHANGED <<mail, bus, ends, results, held, now>>

----------------------------------------------------------------------------

(* The listener: the head of a queue and the file it owns pass to it.      *)
QueueListen(inbox) == [in |-> PublicInboundFromStored(Head(inbox)), inbox |-> Tail(inbox)]

Handed(c, in) ==
    /\ held' = held \union {in}
    /\ record' = [record EXCEPT ![c].handed = Append(@, in.id)]

(* What is read from a queue whose memory was freed: the path may name any *)
(* file by now.                                                            *)
ReadBack(in) ==
    {in} \union (IF hook.freed THEN {[in EXCEPT !.file = f] : f \in tmp \union {""}} ELSE {})

WebhookListen ==
    /\ hook.inbox # <<>>
    /\ LET q == QueueListen(hook.inbox)
       IN  /\ hook' = [hook EXCEPT !.inbox = q.inbox]
           /\ \E in \in ReadBack(q.in) : Handed("webhook", in)
    /\ UNCHANGED <<mail, bus, ends, results, tmp, now, quota>>

(* sc_channel_transport_push_inbound, called by whoever owns the socket.   *)
TransportPushInbound(id) ==
    /\ quota.pushes > 0 /\ bus.st = "ok"
    /\ LET in == StoredInboundFromPublic([id |-> id, sender |-> "peer", text |-> "t", file |-> "",
                                          size |-> 0, trusted |-> FALSE, temporary |-> FALSE])
       IN  bus' = [bus EXCEPT !.inbox = Append(@, in)] /\ record' = Note("transport", in)
    /\ quota' = [quota EXCEPT !.pushes = @ - 1]
    /\ UNCHANGED <<hook, mail, ends, results, tmp, held, now>>

TransportListen ==
    /\ bus.inbox # <<>>
    /\ LET q == QueueListen(bus.inbox)
       IN  bus' = [bus EXCEPT !.inbox = q.inbox] /\ Handed("transport", q.in)
    /\ UNCHANGED <<hook, mail, ends, results, tmp, now, quota>>

(* An answer goes to a list in memory, and to nobody on the webhook.       *)
TransportSend(text) ==
    /\ quota.pushes > 0 /\ bus.st = "ok"
    /\ bus' = [bus EXCEPT !.sent = Append(@, text)]
    /\ quota' = [quota EXCEPT !.pushes = @ - 1]
    /\ UNCHANGED <<hook, mail, ends, results, tmp, held, record, now>>

(* The orchestrator is done with a message (sc_channel_inbound_clear).     *)
DoneWith(in) ==
    /\ in \in held
    /\ held' = held \ {in}
    /\ tmp' = InboundClear(in, tmp)
    /\ UNCHANGED <<hook, mail, bus, ends, results, record, now, quota>>

----------------------------------------------------------------------------
(* Mail.  A raw message is its headers: an absent header is "".            *)
HeaderValue(raw, name) == raw[name]
MailBody(raw) == raw.body

(* The subject comes first, so that it is the prefix of the text.          *)
MailText(raw) ==
    LET subject == HeaderValue(raw, "subject")
    IN  IF subject = "" THEN <<MailBody(raw)>>
        ELSE IF MailBody(raw) = "" THEN <<subject>> ELSE <<subject, MailBody(raw)>>

MailParseMessage(raw) ==
    [st |-> IF MailBody(raw) = "" /\ HeaderValue(raw, "subject") = "" THEN "empty_message" ELSE "ok",
     id |-> IF HeaderValue(raw, "id") = "" THEN "mail" ELSE HeaderValue(raw, "id"),
     sender |-> IF HeaderValue(raw, "from") = "" THEN "mail" ELSE HeaderValue(raw, "from"),
     text |-> MailText(raw)]

MailSenderAllowed(ch, sender) == ContainsWildcardOrValue(ch.senders, sender)

MailApplyFilters(ch, in) ==
    IF ~MailSenderAllowed(ch, in.sender) THEN "sender_denied"
    ELSE IF ch.prefix # "" /\ Head(in.text) # ch.prefix THEN "subject_prefix_denied" ELSE "ok"

MailAttachmentNameSafe(name) == name \notin {"", "..", "a/b", "a\\b"}

(* Only the name, the type and the size travel: nothing is written, and    *)
(* the path is not temporary.                                              *)
MailStoreAttachmentMetadata(ch, raw) ==
    LET name == HeaderValue(raw, "attachment")
    IN  CASE name = ""                                         -> [st |-> "ok", path |-> ""]
          [] name # "" /\ ~MailAttachmentNameSafe(name)         -> [st |-> "name_denied", path |-> ""]
          [] name # "" /\ MailAttachmentNameSafe(name) /\ raw.size < 0
                                                               -> [st |-> "size_invalid", path |-> ""]
          [] OTHER -> [st |-> "ok", path |-> IF ch.dir = "" THEN "" ELSE name]

(* The answer of the server to a fetch: always the message its URL names,  *)
(* which stays there (delete_after_read is stored and not used).           *)
MailCurlRequest(ch, raw) == IF raw.len > ch.maxBytes THEN "message_too_large" ELSE "ok"

MailFetch(raw) == MailCurlRequest(mail.ch, raw)

MailListen ==
    /\ quota.polls > 0 /\ mail.box # <<>>
    /\ quota' = [quota EXCEPT !.polls = @ - 1]
    /\ LET raw == Head(mail.box)
           parsed == MailParseMessage(raw)
           meta == MailStoreAttachmentMetadata(mail.ch, raw)
           in == [id |-> parsed.id, sender |-> parsed.sender, text |-> "t", file |-> meta.path,
                  size |-> raw.size, trusted |-> FALSE, temporary |-> FALSE]
       IN  \/ /\ MailFetch(raw) = "ok" /\ parsed.st = "ok"
              /\ MailApplyFilters(mail.ch, parsed) = "ok" /\ meta.st = "ok"
              /\ held' = held \union {QueueListen(Append(mail.ch.inbox, StoredInboundFromPublic(in))).in}
              /\ record' = [Note("mail", in) EXCEPT !["mail"].handed = Append(@, in.id)]
           \/ /\ \/ MailFetch(raw) # "ok" \/ parsed.st # "ok" \/ meta.st # "ok"
                 \/ parsed.st = "ok" /\ MailApplyFilters(mail.ch, parsed) # "ok"
              /\ UNCHANGED <<held, record>>
    /\ UNCHANGED <<hook, mail, bus, ends, results, tmp, now>>

(* The server behind the mail channel gets a message or drops its first.   *)
MailServer ==
    /\ \/ /\ \E m \in Mails : mail' = [mail EXCEPT !.box = <<m>>]
       \/ mail.box # <<>> /\ mail' = [mail EXCEPT !.box = Tail(@)]
    /\ quota.mails > 0
    /\ quota' = [quota EXCEPT !.mails = @ - 1]
    /\ UNCHANGED <<hook, bus, ends, results, tmp, held, record, now>>

MailBuildPayload(ch, m) ==
    [to |-> ch.to, subject |-> IF ch.prefix = "" THEN <<"reply">> ELSE <<ch.prefix, "reply">>,
     references |-> m.reply, body |-> m.text]

MailDeliver(ch, ok) == IF ch.smtp = "" THEN "deliver_invalid" ELSE IF ok THEN "ok" ELSE "curl_failed"

(* A copy is kept only of what the server took.                            *)
MailSend(m, ok) ==
    /\ quota.mails > 0
    /\ quota' = [quota EXCEPT !.mails = @ - 1]
    /\ LET payload == MailBuildPayload(mail.ch, m)
       IN  mail' = IF MailDeliver(mail.ch, ok) # "ok" THEN mail
                   ELSE [mail EXCEPT !.ch.sent = Append(@, payload), !.delivered = Append(@, payload)]
    /\ UNCHANGED <<hook, bus, ends, results, tmp, held, record, now>>

----------------------------------------------------------------------------
(* The router of named webhooks.                                           *)
EndpointFind(path) ==
    LET found == {i \in DOMAIN Router : Router[i].path = path}
    IN  IF found = {} THEN 0 ELSE CHOOSE i \in found : \A j \in found : i <= j

StringVecAllows(list, v) == ContainsWildcardOrValue(list, v)

(* A window is one second of the clock, whichever way the clock moves.     *)
EndpointRateCheck(i) ==
    LET e == ends[i]
        w == IF e.second # now THEN [second |-> now, count |-> 0] ELSE e
    IN  IF w.count >= Router[i].perSecond THEN [st |-> "rate_limited", e |-> w]
        ELSE [st |-> "ok", e |-> [w EXCEPT !.count = @ + 1]]

(* The keyed hash of a body: what the holder of the secret would compute.  *)
Hmac(secret, body, form) == <<secret, body, form>>
StripSignaturePrefix(sig) == sig.value
SignatureMatches(provided, expected) == provided = expected

EndpointVerifySignature(o, r) ==
    IF o.secret = "" THEN "ok"
    ELSE IF r.sigs = {} THEN "signature_missing"
    ELSE IF \E s \in r.sigs :
              SignatureMatches(StripSignaturePrefix(s),
                               CASE s.header \in {"x-hub-signature-256", "x-signature"}
                                        -> Hmac(o.secret, <<r.body>>, "hex")
                                 [] s.header = "x-nextcloud-talk-signature"
                                        -> Hmac(o.secret, <<r.random, r.body>>, "hex")
                                 [] OTHER -> Hmac(o.secret, <<r.body>>, "base64"))
    THEN "ok" ELSE "signature_denied"

DispatchKindFromTarget(target) ==
    IF target.kind \in {"cron", "system"} THEN target.kind ELSE "conversation"

(* A field of the payload that is neither text nor number is empty; a body *)
(* that is not JSON fails the rendering.                                   *)
RenderPayloadField(r, field) ==
    IF ~r.json THEN "error" ELSE IF field \in DOMAIN r.fields THEN r.fields[field] ELSE ""

RenderTemplate(o, r) ==
    IF o.template = <<>> THEN <<r.body>>
    ELSE [k \in DOMAIN o.template |->
            IF o.template[k].payload = "whole" THEN r.body
            ELSE IF o.template[k].payload = "field" THEN RenderPayloadField(r, o.template[k].text)
            ELSE o.template[k].text]

ResponseForMode(mode, rendered) ==
    CASE mode = "status" -> <<"OK">> [] mode = "inline" -> rendered [] OTHER -> <<"text", rendered>>

RouterGate(i, r) ==
    CASE i = 0                                                -> "not_found"
      [] i # 0 /\ ~Router[i].enabled                           -> "not_found"
      [] i # 0 /\ Router[i].enabled /\ ~r.post                 -> "method_rejected"
      [] i # 0 /\ Router[i].enabled /\ r.post /\ r.len > Router[i].maxBody -> "body_too_large"
      [] OTHER -> IF StringVecAllows(Router[i].allow, r.ip) THEN "ok" ELSE "allow_list_denied"

(* A request costs its share of the rate before its signature is looked at.*)
RouterIngest(r) ==
    LET i == EndpointFind(r.path)
        rate == EndpointRateCheck(i)
        text == RenderTemplate(Router[i], r)
    IN  /\ quota.named > 0
        /\ quota' = [quota EXCEPT !.named = @ - 1]
        /\ \/ RouterGate(i, r) # "ok" /\ UNCHANGED <<ends, results>>
           \/ /\ RouterGate(i, r) = "ok"
              /\ ends' = [ends EXCEPT ![i] = rate.e]
              /\ \/ /\ rate.st = "ok" /\ EndpointVerifySignature(Router[i], r) = "ok"
                    /\ "error" \notin {text[k] : k \in DOMAIN text}
                    /\ results' = results \union
                         {[at |-> now, kind |-> DispatchKindFromTarget(Router[i].target), text |-> text,
                           answer |-> ResponseForMode(Router[i].reply, text)]}
                 \/ /\ \/ rate.st # "ok" \/ EndpointVerifySignature(Router[i], r) # "ok"
                       \/ "error" \in {text[k] : k \in DOMAIN text}
                    /\ UNCHANGED results
        /\ UNCHANGED <<hook, mail, bus, tmp, held, record, now>>

----------------------------------------------------------------------------
(* The wall clock, which an operator may also set back.                    *)
ClockMoves ==
    /\ \/ now < MaxClock /\ quota.ticks > 0 /\ now' = now + 1 /\ quota' = [quota EXCEPT !.ticks = @ - 1]
       \/ now > 1 /\ quota.backs > 0 /\ now' = now - 1 /\ quota' = [quota EXCEPT !.backs = @ - 1]
    /\ UNCHANGED <<hook, mail, bus, ends, results, tmp, held, record>>

(* The process dies, perhaps inside a request whose file is on disk, and   *)
(* starts again: queues, nonces and rate windows were only in memory.      *)
IngressRestart ==
    /\ quota.crashes > 0
    /\ \/ UNCHANGED tmp
       \/ \E r \in Requests : /\ WebhookGate(hook, r) = "ok"
                              /\ tmp' = ParseWebhookBody(hook, r, tmp, FALSE).files
    /\ hook' = WebhookNew(WebhookOptions)
    /\ mail' = [mail EXCEPT !.ch = MailNew(MailOptions)]
    /\ bus' = [bus EXCEPT !.inbox = <<>>, !.sent = <<>>]
    /\ ends' = [i \in DOMAIN Router |-> [second |-> 0, count |-> 0]]
    /\ held' = {}
    /\ record' = [c \in IngressChannels |-> [accepted |-> <<>>, handed |-> <<>>, nonces |-> <<>>]]
    /\ quota' = [quota EXCEPT !.crashes = @ - 1]
    /\ UNCHANGED <<results, now>>

(* The channels are destroyed: what they still hold is cleared.            *)
ClearAll(inbox, files) == FoldLeft(LAMBDA f, in : InboundClear(in, f), files, inbox)

Shutdown ==
    /\ quota.shutdowns > 0 /\ held = {}
    /\ \E lost \in IF hook.freed THEN SUBSET tmp ELSE {{}} : tmp' = ClearAll(hook.inbox, tmp) \ lost
    /\ hook' = WebhookNew(WebhookOptions)
    /\ mail' = [mail EXCEPT !.ch = MailNew(MailOptions)]
    /\ bus' = [bus EXCEPT !.inbox = <<>>, !.sent = <<>>]
    /\ ends' = [i \in DOMAIN Router |-> [second |-> 0, count |-> 0]]
    /\ record' = [c \in IngressChannels |-> [accepted |-> <<>>, handed |-> <<>>, nonces |-> <<>>]]
    /\ quota' = [quota EXCEPT !.shutdowns = @ - 1]
    /\ UNCHANGED <<held, results, now>>

IngressNext ==
    \/ \E r \in Requests, full \in BOOLEAN, fails \in {"no", "store", "nonce"} : Ingest(r, full, fails)
    \/ WebhookListen
    \/ \E id \in {"p", "q"} : TransportPushInbound(id)
    \/ TransportListen
    \/ TransportSend("t")
    \/ \E in \in held : DoneWith(in)
    \/ MailListen
    \/ MailServer
    \/ \E ok \in BOOLEAN : MailSend([reply |-> "1", text |-> "t"], ok)
    \/ \E r \in Named : RouterIngest(r)
    \/ ClockMoves
    \/ IngressRestart
    \/ Shutdown

IngressSpec == IngressInit /\ [][IngressNext]_ingressVars

----------------------------------------------------------------------------
(* The same nonce is let in twice only after MaxNonces others: within one  *)
(* life of the process a repeated request is refused as long as its nonce  *)
(* can be remembered (webhook_check_replay, webhook_remember_nonce).       *)
NonceOnceInWindow ==
    LET seen == record["webhook"].nonces
    IN  \A i, j \in DOMAIN seen : i < j /\ seen[i] = seen[j] => j - i > MaxNonces

Owners == {hook.inbox[k] : k \in DOMAIN hook.inbox} \union held

(* A message that owns a temporary file finds it on disk until it is       *)
(* cleared, and no other message owns that file: neither a refused replay  *)
(* nor the end of another message takes it away                            *)
(* (stored_inbound_from_public, sc_channel_inbound_clear).                 *)
AttachmentsOwned ==
    /\ \A m \in Owners : m.temporary => m.file \in tmp
    /\ \A i, j \in DOMAIN hook.inbox :
           i # j => ~(hook.inbox[i].temporary /\ hook.inbox[j].temporary
                      /\ hook.inbox[i].file = hook.inbox[j].file)
    /\ \A m \in held, k \in DOMAIN hook.inbox :
           ~(m.temporary /\ hook.inbox[k].temporary /\ m.file = hook.inbox[k].file)
    /\ \A m, o \in held : m # o => ~(m.temporary /\ o.temporary /\ m.file = o.file)

(* A channel hands over what it accepted, each message once and in order,  *)
(* and what it has not handed over is in its queue (queue_listen).         *)
AcceptedInOrder ==
    /\ record["webhook"].accepted =
           record["webhook"].handed \o [k \in DOMAIN hook.inbox |-> hook.inbox[k].id]
    /\ record["transport"].accepted =
           record["transport"].handed \o [k \in DOMAIN bus.inbox |-> bus.inbox[k].id]

(* The channels behind the gateway take a request once, keep what belongs  *)
(* to it and lose none (sc_channel_webhook_ingest, queue_listen), for as   *)
(* long as the process lives and no nonce failed to be remembered after    *)
(* its message was queued: from then on the queue is read from freed       *)
(* memory (QueuedKeepsItsFile is the claim that this breaks).              *)
IngressSound == hook.freed \/ (NonceOnceInWindow /\ AttachmentsOwned /\ AcceptedInOrder)

(* A message that is in the webhook's queue still owns its temporary file: *)
(* ownership passes to the queue only when nothing can fail any more.  The *)
(* code queues the message first, and then may fail to remember its nonce  *)
(* and clear what it queued (sc_channel_webhook_ingest).                   *)
QueuedKeepsItsFile ==
    \A k \in DOMAIN hook.inbox : hook.inbox[k].temporary => hook.inbox[k].file \in tmp
=============================================================================
