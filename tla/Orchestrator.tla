---------------------------- MODULE Orchestrator ----------------------------
(***************************************************************************)
(* The channel orchestrator (src/channels/orchestrator.c) under the        *)
(* runtime's channel poll task (src/runtime/bootstrap.c): each pass listens *)
(* once on every channel in order, and a message that was taken is          *)
(* deduplicated, authorised, answered by the agent, and remembered: in the  *)
(* history of its scope, and in one session store: the SQLite tables or a   *)
(* JSONL file, whichever channels.session_backend names.                   *)
(*                                                                         *)
(* Processing is one synchronous call, but every send, file and database    *)
(* write in it can fail on its own and the process can die between any two  *)
(* of them, so each of them is a step.  A name (channel, conversation,      *)
(* thread, sender) is the sequence of the parts that '_' separates in it,   *)
(* which is all that the session key's conversions look at; the empty name  *)
(* is one empty part.                                                      *)
(***************************************************************************)
EXTENDS Naturals, SequencesExt, FiniteSets

CONSTANTS
    Messages,        \* [uid, id, chan, conv, thread, sender, mention]
    Channels,        \* the channel names, in polling order
    Rules,           \* common rule of a channel, for the channels that have one
    AllowedSenders,  \* options->allowed_senders; {} allows everyone
    Drafting,        \* the channels with SC_CHANNEL_CAP_DRAFT_UPDATES
    MaxSeen,         \* max_seen_message_ids
    MaxHist,         \* max_history_messages
    Settings,        \* the configurations [backend, continue] the process may be
                     \* started with: the session store that is written, and
                     \* continue_channel_errors (the opposite of --once)
    MaxArrivals, MaxFaults, MaxCrashes   \* bounds of the model

\* sc_channel_orchestrator_new takes 1024 for a limit of 0; the poll task exists
\* only when there is a channel.  A uid stands for one delivered text.
ASSUME LimitsAssumption ==
    /\ MaxSeen \in Nat \ {0} /\ MaxHist \in Nat
    /\ MaxArrivals \in Nat /\ MaxFaults \in Nat /\ MaxCrashes \in Nat
ASSUME ChannelsAssumption == Channels \in Seq(ToSet(Channels)) /\ Channels # <<>>
ASSUME MessagesAssumption == \A m, n \in Messages : m.uid = n.uid => m = n

NoMessage == [uid |-> "none"]

\* One of db path and JSONL directory is set.  No store is written when
\* session_persistence is off, or when the SQLite library cannot be loaded.
Backends == {"sqlite", "jsonl", "none"}

ASSUME SettingsAssumption == \A o \in Settings : o.backend \in Backends

Nameless == <<"">>

VARIABLES
    opts,        \* the configuration the process was started with
    inbox,       \* per channel: received messages, oldest first
    pc, slot, cur, role,   \* where the poll task and the call of process are
    seen,        \* seen_message_ids
    hist,        \* histories: scope -> messages <<role, uid>>
    context,     \* the agent's session histories: session id -> messages
    jsonl,       \* lines <<key, role, uid>> of the JSONL files
    meta,        \* session_metadata.message_count: key -> count
    rows,        \* rows <<key, role, uid>> of the sessions table
    sent,        \* texts sent: <<kind, uid, life>>, in order
    admits,      \* ids remembered since the process started
    stored,      \* since the start every write of the session store worked
    arrivals, faults, crashes

flow  == <<pc, slot, cur, role>>
disk  == <<jsonl, meta, rows>>
ghost == <<admits, stored>>
count == <<arrivals, faults, crashes>>
vars  == <<opts, inbox, flow, seen, hist, context, disk, sent, ghost, count>>

-----------------------------------------------------------------------------
(* Scopes, session ids and session keys.                                   *)

ThreadOf(m) == IF m.thread = Nameless THEN m.conv ELSE m.thread

ChannelOf(m) == IF m.chan = Nameless THEN <<"unknown">> ELSE m.chan

ScopeOf(m) == <<ChannelOf(m), m.sender, ThreadOf(m)>>

SessionId(m) == ThreadOf(m)

\* channel_conversation_sender, as one text.
BuildKey(m) == m.chan \o m.conv \o m.sender

\* A key with nothing before its first or after its last '_' is refused.
ValidKey(key) == Head(key) # "" /\ Last(key) # ""

\* The text is cut at its first and its last '_'.
ParseKey(key) ==
    << <<Head(key)>>, <<Last(key)>>, SubSeq(key, 2, Len(key) - 1) >>

Keys == {BuildKey(m) : m \in Messages}
Scopes == {ScopeOf(m) : m \in Messages} \cup {ParseKey(k) : k \in {key \in Keys : ValidKey(key)}}
Sessions == {SessionId(m) : m \in Messages}

\* sc_history_append with its trailing trim: the oldest messages go.
Append1(h, entry) ==
    LET long == Append(h, entry)
    IN  IF Len(long) > MaxHist
        THEN SubSeq(long, Len(long) - MaxHist + 1, Len(long)) ELSE long

\* A message joins the history of its scope.
Remember(histories, scope, entry) ==
    [histories EXCEPT ![scope] = Append1(@, entry)]

\* A row joins the history that its key names; one with a refused key is skipped.
ReadRow(histories, row) ==
    IF ValidKey(row[1]) THEN Remember(histories, ParseKey(row[1]), <<row[2], row[3]>>)
    ELSE histories

\* What sc_channel_orchestrator_new rebuilds from the sessions table, row after
\* row.  The query sorts by key and then by age; a scope has the rows of one key,
\* so the order between keys does not matter.
Reload(table) ==
    LET histories[n \in 0..Len(table)] ==
            IF n = 0 THEN [s \in Scopes |-> <<>>] ELSE ReadRow(histories[n - 1], table[n])
    IN  histories[Len(table)]

-----------------------------------------------------------------------------
(* Deduplication and authorisation.                                        *)

MessageSeen(m) == m.id # "" /\ m.id \in ToSet(seen)

\* Mutant: one id too many is forgotten.
EvictedTooMany == IF Len(seen) >= MaxSeen
                  THEN SubSeq(seen, Len(seen) - MaxSeen + 3, Len(seen)) ELSE seen

\* Make room for one more id, oldest first.
Evicted == IF Len(seen) >= MaxSeen
           THEN SubSeq(seen, Len(seen) - MaxSeen + 2, Len(seen)) ELSE seen

\* string_vec_contains_wildcard_or_value: an empty list allows every value.
Listed(list, value) == list = {} \/ value \in list

CommonAllows(m) ==
    m.chan \in DOMAIN Rules =>
        LET r == Rules[m.chan]
        IN  /\ r.enabled
            /\ r.pairing => r.paired
            /\ Listed(r.users, m.sender)
            /\ Listed(r.convs, m.conv)
            /\ r.mentions => m.mention

SenderAllowed(m) == Listed(AllowedSenders, m.sender)

Authorised(m) == CommonAllows(m) /\ SenderAllowed(m)

-----------------------------------------------------------------------------
TypeOK ==
    /\ opts \in Settings
    /\ inbox \in [ToSet(Channels) -> Seq(Messages)]
    /\ pc \in {"idle", "listen", "admit", "draft", "input", "agent", "reply",
               "attach", "append", "jsonl", "meta", "row", "sorry",
               "stopped", "dead"}
    /\ slot \in 0 .. Len(Channels)
    /\ cur \in Messages \cup {NoMessage}
    /\ role \in {"user", "assistant"}
    /\ seen \in Seq({m.id : m \in Messages})
    /\ DOMAIN hist = Scopes /\ DOMAIN context = Sessions
    /\ \A s \in Scopes : Len(hist[s]) <= MaxHist
    /\ meta \in [Keys -> Nat]
    /\ stored \in BOOLEAN
    /\ arrivals \in 0 .. MaxArrivals
    /\ faults \in 0 .. MaxFaults
    /\ crashes \in 0 .. MaxCrashes

Init ==
    /\ opts \in Settings
    /\ inbox = [c \in ToSet(Channels) |-> <<>>]
    /\ pc = "idle" /\ slot = 0 /\ cur = NoMessage /\ role = "user"
    /\ seen = <<>>
    /\ hist = [s \in Scopes |-> <<>>]
    /\ context = [s \in Sessions |-> <<>>]
    /\ jsonl = <<>> /\ rows = <<>> /\ meta = [k \in Keys |-> 0]
    /\ sent = <<>>
    /\ admits = <<>> /\ stored = TRUE
    /\ arrivals = 0 /\ faults = 0 /\ crashes = 0

(***************************************************************************)
(* One operation that can fail: it does, within the fault bound, or not.   *)
(***************************************************************************)
Works == UNCHANGED count

Breaks ==
    /\ faults < MaxFaults
    /\ faults' = faults + 1
    /\ UNCHANGED <<arrivals, crashes>>

Goto(label) == pc' = label /\ UNCHANGED <<slot, cur, role>>

\* Mutant: the pass ends one channel early.
NextChannelShort ==
    /\ cur' = NoMessage
    /\ role' = "user"
    /\ IF slot + 1 < Len(Channels)
       THEN pc' = "listen" /\ slot' = slot + 1
       ELSE pc' = "idle" /\ slot' = 0

\* The call returned SC_OK (or a timeout): on to the next channel.
NextChannel ==
    /\ cur' = NoMessage
    /\ role' = "user"
    /\ IF slot < Len(Channels)
       THEN pc' = "listen" /\ slot' = slot + 1
       ELSE pc' = "idle" /\ slot' = 0

\* The call returned an error: the task goes on, or fails and ends the loop.
PollError ==
    IF opts.continue THEN NextChannel
    ELSE pc' = "stopped" /\ slot' = 0 /\ cur' = NoMessage /\ role' = "user"

\* SC_ERR_TIMEOUT, which a channel's or a provider's request may end with, is
\* taken for a channel that has nothing.
PollErrorOrTimeout == PollError \/ NextChannel

-----------------------------------------------------------------------------
(* The platform.                                                           *)

\* A message reaches its channel; platforms deliver at least once, so the
\* same message can come again.
Arrive(m) ==
    /\ pc # "dead"
    /\ arrivals < MaxArrivals
    /\ arrivals' = arrivals + 1
    /\ inbox' = [inbox EXCEPT ![m.chan] = Append(@, m)]
    /\ UNCHANGED <<opts, flow, seen, hist, context, disk, sent, ghost, faults, crashes>>

-----------------------------------------------------------------------------
(* The poll task.                                                          *)

StartPass ==
    /\ pc = "idle"
    /\ pc' = "listen" /\ slot' = 1
    /\ UNCHANGED <<inbox, cur, role, seen, hist, context, disk, sent, ghost, count>>

\* Nothing to take: SC_ERR_TIMEOUT, which the task ignores.
ListenEmpty ==
    /\ pc = "listen"
    /\ inbox[Channels[slot]] = <<>>
    /\ NextChannel
    /\ UNCHANGED <<inbox, seen, hist, context, disk, sent, ghost, count>>

\* The head is copied out, and removed only when the copy succeeded.
Listen ==
    /\ pc = "listen"
    /\ inbox[Channels[slot]] # <<>>
    /\ \/ /\ Works
          /\ cur' = Head(inbox[Channels[slot]])
          /\ inbox' = [inbox EXCEPT ![Channels[slot]] = Tail(@)]
          /\ pc' = "admit"
          /\ UNCHANGED <<slot, role>>
       \/ /\ Breaks
          /\ PollErrorOrTimeout
          /\ UNCHANGED inbox
    /\ UNCHANGED <<seen, hist, context, disk, sent, admits, stored>>

-----------------------------------------------------------------------------
(* sc_channel_orchestrator_process.                                        *)

Duplicate ==
    /\ pc = "admit"
    /\ MessageSeen(cur)
    /\ NextChannel
    /\ UNCHANGED <<inbox, seen, hist, context, disk, sent, ghost, count>>

\* The id is remembered before anything else is known about the message.
Admit ==
    /\ pc = "admit"
    /\ ~MessageSeen(cur)
    /\ \/ /\ Works
          /\ seen' = IF cur.id = "" THEN seen ELSE Append(Evicted, cur.id)
          /\ admits' = IF cur.id = "" THEN admits ELSE Append(admits, cur.id)
          /\ IF Authorised(cur) THEN Goto("draft") ELSE NextChannel
       \/ /\ cur.id # ""        \* the copy of the id failed, after the eviction
          /\ Breaks
          /\ seen' = Evicted
          /\ PollError
          /\ UNCHANGED admits
       \/ /\ Authorised(cur)    \* history_for failed, after the id was kept
          /\ Breaks
          /\ seen' = IF cur.id = "" THEN seen ELSE Append(Evicted, cur.id)
          /\ admits' = IF cur.id = "" THEN admits ELSE Append(admits, cur.id)
          /\ PollError
    /\ UNCHANGED <<inbox, hist, context, disk, sent, stored>>

Say(kind) == sent' = Append(sent, <<kind, cur.uid, crashes>>)

\* send_reply("...", draft) on a channel that can edit drafts.
SendDraft ==
    /\ pc = "draft"
    /\ \/ cur.chan \notin Drafting /\ Works /\ Goto("input") /\ UNCHANGED sent
       \/ cur.chan \in Drafting /\ Works /\ Goto("input") /\ Say("draft")
       \/ cur.chan \in Drafting /\ Breaks /\ Goto("sorry") /\ UNCHANGED sent
    /\ UNCHANGED <<inbox, seen, hist, context, disk, ghost>>

\* Model switch, tool lists and the transcription of audio.
BuildInput ==
    /\ pc = "input"
    /\ \/ Works /\ Goto("agent")
       \/ Breaks /\ Goto("sorry")
    /\ UNCHANGED <<inbox, seen, hist, context, disk, sent, ghost>>

\* The turn fails, or the agent appends it to its session history; the second
\* append, or the write to memory after both, can still fail the turn.
AgentRuns ==
    /\ pc = "agent"
    /\ LET h    == context[SessionId(cur)]
           asked == Append1(h, <<"user", cur.uid>>)
           done == Append1(asked, <<"assistant", cur.uid>>)
       IN  \/ /\ Works
              /\ context' = [context EXCEPT ![SessionId(cur)] = done]
              /\ Goto("reply")
           \/ /\ Breaks
              /\ \E kept \in {h, asked, done} :
                    context' = [context EXCEPT ![SessionId(cur)] = kept]
              /\ Goto("sorry")
    /\ UNCHANGED <<inbox, seen, hist, disk, sent, ghost>>

\* The apology; whether it went out is ignored, the error is returned.
SendSorry ==
    /\ pc = "sorry"
    /\ \/ Works /\ Say("final")
       \/ Breaks /\ UNCHANGED sent
    /\ PollErrorOrTimeout
    /\ UNCHANGED <<inbox, seen, hist, context, disk, ghost>>

SendReply ==
    /\ pc = "reply"
    /\ \/ Works /\ Say("final") /\ Goto("attach")
       \/ Breaks /\ UNCHANGED sent /\ PollErrorOrTimeout
    /\ UNCHANGED <<inbox, seen, hist, context, disk, ghost>>

\* Mutant: a failed attachment is apologised for like a failed turn.
SendAttachmentOrSorry ==
    /\ pc = "attach"
    /\ \/ Works /\ Goto("append")
       \/ Breaks /\ Goto("sorry")
    /\ UNCHANGED <<inbox, seen, hist, context, disk, sent, ghost>>

\* The attachment; the spoken reply's own failure is ignored.
SendAttachment ==
    /\ pc = "attach"
    /\ \/ Works /\ Goto("append")
       \/ Breaks /\ PollErrorOrTimeout
    /\ UNCHANGED <<inbox, seen, hist, context, disk, sent, ghost>>

\* The call goes on with the answer, or it is done.
NextRole ==
    IF role = "user" THEN pc' = "append" /\ role' = "assistant" /\ UNCHANGED <<slot, cur>>
    ELSE NextChannel

\* sc_history_append of the role's message; what follows writes the store in use.
AppendHistory ==
    /\ pc = "append"
    /\ \/ /\ Works
          /\ hist' = Remember(hist, ScopeOf(cur), <<role, cur.uid>>)
          /\ \/ opts.backend = "sqlite" /\ Goto("meta")
             \/ opts.backend = "jsonl" /\ Goto("jsonl")
             \/ opts.backend = "none" /\ NextRole
          /\ UNCHANGED stored
       \/ /\ Breaks
          /\ PollError
          /\ stored' = FALSE
          /\ UNCHANGED hist
    /\ UNCHANGED <<inbox, seen, context, disk, sent, admits>>

Entry == <<BuildKey(cur), role, cur.uid>>

\* A failed write or close may have left the line in the file.
WriteJsonl ==
    /\ pc = "jsonl"
    /\ \/ Works /\ jsonl' = Append(jsonl, Entry) /\ NextRole /\ UNCHANGED stored
       \/ Breaks /\ jsonl' \in {jsonl, Append(jsonl, Entry)} /\ PollError /\ stored' = FALSE
    /\ UNCHANGED <<inbox, seen, hist, context, meta, rows, sent, admits>>

\* Mutant: a failed upsert does not keep the row from being inserted.
UpsertMetaIgnored ==
    /\ pc = "meta"
    /\ \/ /\ Works
          /\ meta' = [meta EXCEPT ![BuildKey(cur)] = @ + 1]
       \/ Breaks /\ UNCHANGED meta
    /\ Goto("row")
    /\ UNCHANGED <<inbox, seen, hist, context, jsonl, rows, sent, admits, stored>>

\* persist_session_sqlite is two statements, each its own transaction.
UpsertMeta ==
    /\ pc = "meta"
    /\ \/ /\ Works
          /\ meta' = [meta EXCEPT ![BuildKey(cur)] = @ + 1]
          /\ Goto("row") /\ UNCHANGED stored
       \/ Breaks /\ UNCHANGED meta /\ PollError /\ stored' = FALSE
    /\ UNCHANGED <<inbox, seen, hist, context, jsonl, rows, sent, admits>>

InsertRow ==
    /\ pc = "row"
    /\ \/ /\ Works
          /\ rows' = Append(rows, Entry)
          /\ NextRole
          /\ UNCHANGED stored
       \/ Breaks /\ UNCHANGED rows /\ PollError /\ stored' = FALSE
    /\ UNCHANGED <<inbox, seen, hist, context, jsonl, meta, sent, admits>>

-----------------------------------------------------------------------------
(* The process dies, and is started again: sc_channel_orchestrator_new.    *)

Crash ==
    /\ pc # "dead"
    /\ crashes < MaxCrashes
    /\ crashes' = crashes + 1
    /\ pc' = "dead" /\ slot' = 0 /\ cur' = NoMessage /\ role' = "user"
    /\ inbox' = [c \in ToSet(Channels) |-> <<>>]
    /\ seen' = <<>>
    /\ hist' = [s \in Scopes |-> <<>>]
    /\ context' = [s \in Sessions |-> <<>>]
    /\ admits' = <<>> /\ stored' = TRUE
    /\ UNCHANGED <<opts, disk, sent, arrivals, faults>>

\* Only the SQLite store is read again.  A database that cannot be opened or
\* queried is taken for an empty one; one that fails while it is read keeps the
\* process from starting.
Restart ==
    /\ pc = "dead"
    /\ \/ /\ Works
          /\ Goto("idle")
          /\ hist' = IF opts.backend = "sqlite" THEN Reload(rows) ELSE hist
          /\ UNCHANGED stored
       \/ /\ opts.backend = "sqlite"
          /\ Breaks
          /\ Goto("idle")
          /\ stored' = FALSE
          /\ UNCHANGED hist
       \/ /\ opts.backend = "sqlite"
          /\ Breaks
          /\ UNCHANGED <<flow, hist, stored>>
    /\ UNCHANGED <<opts, inbox, seen, context, disk, sent, admits>>

-----------------------------------------------------------------------------
Poll ==
    /\ \/ StartPass \/ ListenEmpty \/ Listen \/ Duplicate \/ Admit \/ SendDraft
       \/ BuildInput \/ AgentRuns \/ SendSorry \/ SendReply \/ SendAttachment
       \/ AppendHistory \/ WriteJsonl \/ UpsertMeta \/ InsertRow
    /\ UNCHANGED opts

Next == Poll \/ Crash \/ Restart \/ \E m \in Messages : Arrive(m)

Spec == Init /\ [][Next]_vars

\* The poll task is a repeating timer task: the loop runs it again and again,
\* and a started call returns.
FairSpec == Spec /\ WF_vars(Poll) /\ WF_vars(Restart)

-----------------------------------------------------------------------------
(* Properties.                                                             *)

Times(seq, Test(_)) == Cardinality({i \in DOMAIN seq : Test(seq[i])})

\* A message id that the platform delivers again while it is among the
\* MaxSeen ids remembered last is not admitted again: two admissions of an id
\* are more than MaxSeen admissions apart.  Because the eviction comes before
\* the copy of the new id, failures cost the window a place, but never two
\* (message_seen, remember_message).
AdmittedOnceInWindow ==
    \A i, j \in DOMAIN admits :
        i < j /\ admits[i] = admits[j] => j - i + (IF faults = 0 THEN 0 ELSE 1) > MaxSeen

\* On every path through the call, with its apologies, a message gets at most
\* one final text for each time its id was admitted: never an answer and an
\* apology (sc_channel_orchestrator_process).
OneAnswerPerAdmission ==
    \A m \in Messages : m.id # "" =>
        Times(sent, LAMBDA t : t = <<"final", m.uid, crashes>>)
            <= Times(admits, LAMBDA id : id = m.id)

\* An assistant message is remembered, in memory or on disk, only if the user
\* was sent a text for that message: no crash or failure makes the history
\* show an answer nobody got (the order of send_reply and sc_history_append).
RememberedWasSent ==
    LET answered == {sent[i][2] : i \in {j \in DOMAIN sent : sent[j][1] = "final"}}
    IN  /\ \A i \in DOMAIN jsonl : jsonl[i][2] = "assistant" => jsonl[i][3] \in answered
        /\ \A i \in DOMAIN rows : rows[i][2] = "assistant" => rows[i][3] \in answered
        /\ \A s \in Scopes : \A i \in DOMAIN hist[s] :
               hist[s][i][1] = "assistant" => hist[s][i][2] \in answered

\* An answer directly follows its question.
Paired(file) ==
    \A i \in DOMAIN file : file[i][2] = "assistant" =>
        i > 1 /\ file[i - 1] = <<file[i][1], "user", file[i][3]>>

\* The store in use never gets ahead of itself, whatever failed or crashed between
\* two writes: an answer in it directly follows its question, and the metadata
\* counts at least the rows of each key.  The store that is not in use stays empty
\* (persist_session_message, persist_session_jsonl, persist_session_sqlite).
StoresAgree ==
    /\ opts.backend # "jsonl" => jsonl = <<>>
    /\ opts.backend # "sqlite" => rows = <<>>
    /\ Paired(jsonl) /\ Paired(rows)
    /\ \A k \in Keys : Times(rows, LAMBDA r : r[1] = k) <= meta[k]

\* The messages written in a thread: build_session_key leaves the thread out, so
\* a restart files them under their conversation.
Threaded == {m \in Messages : m.thread # Nameless}

\* The messages whose rows a restart skips.
Skipped == {m \in Messages : ~ValidKey(BuildKey(m))}

\* With the SQLite store, as long as no write of it failed and no message was
\* written in a thread or under a key that is refused, a restart rebuilds exactly
\* the histories the process has, trimming included (load_session_history,
\* history_from_session_key, build_session_key).  The JSONL store is not read.
RestartRebuildsHistory ==
    /\ opts.backend = "sqlite" /\ stored /\ pc \notin {"dead", "meta", "row"}
    /\ \A i \in DOMAIN rows : \A m \in Threaded \cup Skipped : rows[i][3] # m.uid
    => hist = Reload(rows)

\* Scope history by channel, sender, and thread: a history holds messages of
\* its own scope only; after a restart, those of its threads besides.
HistoryScoped ==
    \A s \in Scopes : \A i \in DOMAIN hist[s] : \A m \in Messages :
        m.uid = hist[s][i][2] =>
            ScopeOf(m) = s \/ (crashes > 0 /\ m \in Threaded /\ s = <<m.chan, m.sender, m.conv>>)

\* The histories are faithful, in memory and on disk: an answer in them was sent,
\* the store is consistent and agrees with what a restart reads, and no scope
\* holds what belongs to another (sc_channel_orchestrator_process,
\* persist_session_message, load_session_history).
HistoryFaithful ==
    TypeOK /\ RememberedWasSent /\ StoresAgree /\ RestartRebuildsHistory /\ HistoryScoped

\* Every message that waits in a channel's inbox is taken, and time and again all
\* inboxes are empty: no error of another message, or of another channel's
\* message, keeps the poll task from one (run_channel_poll_task with
\* continue_channel_errors).
InboxesDrain ==
    []<>(opts.continue => \A c \in ToSet(Channels) : inbox[c] = <<>>)

=============================================================================
