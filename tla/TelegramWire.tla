---------------------------- MODULE TelegramWire ----------------------------
(***************************************************************************)
(* What the Telegram channel computes without changing its state           *)
(* (src/channels/telegram.c, src/media/media.c): the options, the text     *)
(* chunks, the bodies of the requests, the reading of an update and the    *)
(* screening of its media.                                                 *)
(*                                                                         *)
(* A text is a sequence of bytes of four classes: "a" plain, "t" a byte    *)
(* that rendering to HTML makes Expanded bytes of, "L" the first and "C" a *)
(* further byte of a character of two bytes.                               *)
(***************************************************************************)
EXTENDS Integers, Sequences, FiniteSets

Bytes == {"a", "t", "L", "C"}
Expanded == 3
SafeLimit == 6                     \* telegram_text_safe_limit_bytes
DefaultBytes == 4                  \* max_media_bytes and max_response_bytes when not set
Placeholder == <<"a">>             \* stands for "...", the text of a placeholder draft

(***************************************************************************)
(* Options.                                                                *)
(***************************************************************************)
OrElse(value, default) == IF value <= 0 THEN default ELSE value

ChannelNew(o) ==
    IF o.token = "" THEN [st |-> "invalid"]
    ELSE [st |-> "ok",
          split |-> OrElse(o.split, SafeLimit), maxMedia |-> OrElse(o.maxMedia, DefaultBytes),
          maxResponse |-> OrElse(o.maxResponse, DefaultBytes),
          approvalTimeout |-> OrElse(o.approvalTimeout, 2),
          streamMode |-> IF o.streamMode = "" THEN "off" ELSE o.streamMode,
          parseMode |-> o.parseMode, username |-> o.username,
          maxRetries |-> o.maxRetries, rateLimit |-> o.rateLimit,
          mentionOnly |-> o.mentionOnly, ack |-> o.ack, post |-> o.post]

StreamModeIsOff(ch) == ch.streamMode = "off"

IsPlaceholderDraft(m) == m.draft /\ m.text = Placeholder

(***************************************************************************)
(* Outbound text.                                                          *)
(***************************************************************************)
ShouldRenderMarkdown(ch) == ch.parseMode \in {"", "HTML"}

(* The HTML that cmark makes of a text, filtered to the allowed tags: only *)
(* its length matters here.                                                *)
MarkdownToHtml(text) ==
    Len(text) + (Expanded - 1) * Cardinality({i \in DOMAIN text : text[i] = "t"})

FormatOutboundText(ch, text) ==
    IF ShouldRenderMarkdown(ch)
    THEN [len |-> MarkdownToHtml(text), parse_mode |-> "HTML"]
    ELSE [len |-> Len(text), parse_mode |-> ch.parseMode]

(* The longest prefix of text[offset+1 .. offset+len] that ends where a    *)
(* character ends; len itself if there is none.                            *)
Utf8ChunkBoundary(text, offset, len) ==
    LET ends == {n \in 1..len : offset + n >= Len(text) \/ text[offset + n + 1] # "C"}
    IN  IF ends = {} THEN len ELSE CHOOSE n \in ends : \A k \in ends : k <= n

ChunkLimit(ch) == IF ch.split < SafeLimit THEN ch.split ELSE SafeLimit

(* How many bytes after offset the next message takes: as many as the      *)
(* limit allows, halved until the rendered text fits.                      *)
NextTextChunk(ch, text, offset) ==
    LET limit == ChunkLimit(ch)
        rest  == Len(text) - offset
        fits[n \in 0..rest] ==
            IF n <= 1 THEN 1
            ELSE IF FormatOutboundText(ch, SubSeq(text, offset + 1, offset + n)).len <= limit
            THEN n
            ELSE fits[Utf8ChunkBoundary(text, offset, n \div 2)]
    IN  fits[Utf8ChunkBoundary(text, offset, IF rest < limit THEN rest ELSE limit)]

(***************************************************************************)
(* The requests.                                                           *)
(***************************************************************************)
BuildGetUpdatesUrl(offset) == [method |-> "getUpdates", offset |-> offset]
BuildGetFileUrl(file) == [method |-> "getFile", file |-> file]
BuildDownloadFileUrl(file) == [method |-> "download", file |-> file]

BuildSendBody(m, text) ==
    [method |-> "sendMessage", chat |-> m.chat, thread |-> m.thread, reply |-> m.reply,
     text |-> text]

(* A draft and an edit carry no reply, an edit no thread either.           *)
BuildMessageDraftBody(m, text, draft) ==
    [method |-> "sendMessageDraft", chat |-> m.chat, thread |-> m.thread, text |-> text,
     draft |-> OrElse(draft, 1)]

BuildEditBody(m, text, id) ==
    [method |-> "editMessageText", chat |-> m.chat, id |-> id, text |-> text]

BuildApprovalBody(request, id) ==
    [method |-> "sendMessage", chat |-> request.chat, thread |-> request.thread,
     reply |-> 0, text |-> <<>>, buttons |-> <<[yes |-> TRUE, id |-> id], [yes |-> FALSE, id |-> id]>>]

BuildDeleteMessageBody(chat, id) == [method |-> "deleteMessage", chat |-> chat, id |-> id]

BuildChatActionBody(m) ==
    [method |-> "sendChatAction", chat |-> m.chat, thread |-> m.thread, action |-> "typing"]

BuildReactionBody(u) ==
    [method |-> "setMessageReaction", chat |-> u.chat, id |-> u.id]

Attachment(method, m, type) ==
    [method |-> method, chat |-> m.chat, thread |-> m.thread, reply |-> m.reply,
     text |-> <<>>, type |-> type]
BuildAudioBody(m) == Attachment("sendAudio", m, m.attach)
BuildVoiceBody(m) == Attachment("sendVoice", m, "audio/ogg")
BuildPhotoBody(m) == Attachment("sendPhoto", m, IF m.attach = "" THEN "image/png" ELSE m.attach)
BuildDocumentBody(m) ==
    Attachment("sendDocument", m, IF m.attach = "" THEN "application/octet-stream" ELSE m.attach)

ContentTypeIsImage(type) == type \in {"image/png", "image/jpeg", "image/gif"}
ContentTypeIsAudio(type) == type \in {"audio/wav", "audio/x-wav", "audio/mpeg", "audio/ogg"}
AttachmentIsWav(m) == m.attach \in {"audio/wav", "audio/x-wav"}
AttachmentIsImage(m) == m.attach \in {"image/png", "image/jpeg", "image/webp"}

(* The body for an attachment; a WAV file becomes a voice message.         *)
SendAudio(m) == IF AttachmentIsWav(m) THEN BuildVoiceBody(m) ELSE BuildAudioBody(m)

SendAttachment(m) ==
    IF m.asDocument THEN BuildDocumentBody(m)
    ELSE IF AttachmentIsImage(m) THEN BuildPhotoBody(m)
    ELSE IF ContentTypeIsAudio(m.attach) THEN SendAudio(m)
    ELSE BuildDocumentBody(m)

(* An upload that got an answer of 400 or more, or one that is not ok, is  *)
(* http_error; a photo with that goes as a document.                       *)
UploadStatus(o) == IF o \in {"busy", "refused"} THEN "http_error" ELSE "request_failed"
PhotoStatusAllowsDocumentFallback(st) == st = "http_error"

HttpStatusRetryable(o) == o = "busy"          \* 408, 429 and 5xx
CurlCodeRetryable(o) == o \in {"down", "lost"}

(***************************************************************************)
(* Reading an update.  An update is what the service holds: what it is,    *)
(* its text, who sent it, and its file.                                    *)
(***************************************************************************)
Unreadable == [readable |-> FALSE]

HasMessage(u) == u.kind \in {"message", "edited_message", "channel_post", "edited_channel_post",
                             "callback"}
IsPost(u) == u.kind \in {"channel_post", "edited_channel_post"}

UpdateText(u) ==
    CASE u.text # ""                      -> u.text
      [] u.text = "" /\ u.file # "none"   -> "[media]"
      [] OTHER                            -> "none"

SenderOf(u) == IF u.username # "" THEN u.username
               ELSE IF u.from # 0 THEN u.from ELSE u.chat

DeclaredContentType(u) ==
    CASE u.media = ""         -> "application/octet-stream"
      [] u.media = "image"    -> "image/png"
      [] OTHER                -> u.media

ExtractUpdate(u) ==
    IF ~HasMessage(u) \/ UpdateText(u) = "none" THEN Unreadable
    ELSE [readable |-> TRUE, id |-> u.id, chat |-> u.chat, sender |-> SenderOf(u),
          text |-> UpdateText(u), file |-> u.file, callback |-> u.kind = "callback",
          post |-> IsPost(u)]

TextMentionsBot(ch, u) == ch.username # "" /\ u.mention
UpdateMentionsBot(ch, u) == TextMentionsBot(ch, u)

UpdateVisible(ch, u) ==
    \/ ~ch.mentionOnly
    \/ u.kind = "callback"
    \/ ch.username = ""
    \/ u.private
    \/ UpdateMentionsBot(ch, u)

(***************************************************************************)
(* Media.                                                                  *)
(***************************************************************************)
DetectMediaType(u) == u.detected      \* by the first bytes; "" if unknown

MediaTypeMatches(u) ==
    \/ DetectMediaType(u) \in {"", DeclaredContentType(u)}
    \/ u.media = "image" /\ ContentTypeIsImage(DetectMediaType(u))

ResolvedContentType(u) ==
    IF DetectMediaType(u) # "" /\ MediaTypeMatches(u) THEN DetectMediaType(u)
    ELSE DeclaredContentType(u)

(* sc_media_attachment_validate, with the resolved type as the only one    *)
(* allowed.                                                                *)
AttachmentValidate(ch, u) ==
    CASE u.bytes = 0            -> "empty"
      [] u.bytes > ch.maxMedia  -> "too_large"
      [] OTHER                  -> "ok"

(* A sound file is run through the media pipeline: a WAV file must have    *)
(* its header, and "no transcriber" is accepted.                           *)
ScreenMediaAttachment(u) ==
    IF /\ ContentTypeIsAudio(ResolvedContentType(u))
       /\ ResolvedContentType(u) \in {"audio/wav", "audio/x-wav"} /\ DetectMediaType(u) # "audio/wav"
    THEN "malformed" ELSE "ok"

(* The file is created and must not exist yet.                             *)
StoreTemp(u, disk) == IF u.file \in disk THEN "open_failed" ELSE "ok"

StoreMediaBytes(ch, u, disk) ==
    CASE u.bytes = 0                              -> "store_invalid"
      [] u.bytes # 0 /\ ~MediaTypeMatches(u)      -> "type_mismatch"
      [] u.bytes # 0 /\ MediaTypeMatches(u) /\ AttachmentValidate(ch, u) # "ok"
                                                  -> AttachmentValidate(ch, u)
      [] u.bytes # 0 /\ MediaTypeMatches(u) /\ AttachmentValidate(ch, u) = "ok"
         /\ ScreenMediaAttachment(u) # "ok"       -> ScreenMediaAttachment(u)
      [] OTHER                                    -> StoreTemp(u, disk)

(* Which failures are final: the update is passed over.                    *)
StatusConsumesUpdate(st) == st \in {"type_mismatch", "too_large"}
=============================================================================
