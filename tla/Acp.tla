-------------------------------- MODULE Acp --------------------------------
(* The ACP server (src/channels/acp.c): agent-client sessions over JSON-RPC
   lines, with a session limit, idle eviction and the update stream that a
   prompt produces.  The module holds the operators; Gateway runs them behind
   its /acp route and the `acp` command runs them over standard input.

   An ACP server is [sessions, next, approvals]: the sessions in their order,
   the number of the next session id, and whether approval requests are
   passed on.  A session is [id, last], `last` the wall clock of its last use. *)
EXTENDS Integers, Sequences, SequencesExt, FiniteSets

CONSTANTS AcpMaxSessions, AcpIdle

\* sc_acp_server_new.
AcpNew(approvals) == [sessions |-> <<>>, next |-> 1, approvals |-> approvals]

AcpIds(a) == {a.sessions[i].id : i \in DOMAIN a.sessions}

\* acp_session_remove: the sessions behind the removed one move up.
AcpRemove(a, id) ==
    [a EXCEPT !.sessions = SelectSeq(a.sessions, LAMBDA s : s.id # id)]

\* acp_evict_idle_sessions: only a session whose last use is not in the future
\* can be idle.
AcpEvict(a, now) ==
    [a EXCEPT !.sessions =
        SelectSeq(a.sessions, LAMBDA s : ~(now >= s.last /\ now - s.last > AcpIdle))]

AcpError(a, code) == [acp |-> a, updates |-> <<>>, code |-> code, finished |-> FALSE]

\* acp_handle_session_new: the limit is checked after the eviction; the id is
\* taken from a counter that never goes back.
AcpSessionNew(a, now) ==
    IF Len(a.sessions) >= AcpMaxSessions THEN AcpError(a, -32001)
    ELSE [acp |-> [a EXCEPT !.sessions = Append(a.sessions, [id |-> a.next, last |-> now]),
                            !.next = a.next + 1],
          updates |-> <<>>, code |-> 0, finished |-> FALSE]

\* acp_result_has_approval_request.
HasApprovalRequest(events) == \E i \in DOMAIN events : events[i] = "approval_required"

\* The update one turn event gives in acp_emit_result_events; a denied call is
\* passed on only when approval requests are.
EventUpdate(a, e) ==
    CASE e = "text_delta" -> <<"text">>
      [] e = "tool_called" -> <<"tool_call">>
      [] e = "tool_result" -> <<"tool_result">>
      [] e \in {"denied", "approval_required"} ->
            IF a.approvals THEN <<"approval_request">> ELSE <<>>
      [] e \in {"prompt_built", "provider_started", "provider_called"} -> <<"reasoning">>
      [] OTHER -> <<>>

\* acp_emit_result_events: the events in order, the output as text unless it was
\* streamed, and the final update; nothing after a pending approval without output.
EmitResultEvents(a, result) ==
    LET upd == FlattenSeq([i \in DOMAIN result.events |-> EventUpdate(a, result.events[i])])
        asked == \E i \in DOMAIN upd : upd[i] = "approval_request"
        texted == \E i \in DOMAIN result.events : result.events[i] = "text_delta"
    IN  IF asked /\ ~result.output THEN upd
        ELSE upd \o (IF ~texted /\ result.output THEN <<"text">> ELSE <<>>) \o <<"final">>

\* acp_handle_session_prompt.  `result` is what the agent's turn returned (with
\* no agent, the prompt is echoed).
AcpPrompt(a, id, prompt, now, agent, result) ==
    IF id = 0 \/ ~prompt THEN AcpError(a, -32602)
    ELSE IF id \notin AcpIds(a) THEN AcpError(a, -32002)
    ELSE LET used == [a EXCEPT !.sessions =
                        [i \in DOMAIN @ |-> IF @[i].id = id THEN [@[i] EXCEPT !.last = now]
                                            ELSE @[i]]]
             pending == result.status = "cancelled" /\ HasApprovalRequest(result.events)
         IN  CASE ~agent ->
                    [acp |-> used, updates |-> <<"reasoning", "text", "final">>,
                     code |-> 0, finished |-> TRUE]
               [] agent /\ (result.status = "ok" \/ pending) ->
                    [acp |-> used,
                     updates |-> <<"reasoning">> \o EmitResultEvents(a, result),
                     code |-> 0, finished |-> ~pending]
               [] OTHER ->
                    [acp |-> used, updates |-> <<"reasoning">>, code |-> -32003,
                     finished |-> FALSE]

\* acp_handle_session_stop.
AcpStop(a, id) ==
    IF id = 0 THEN AcpError(a, -32602)
    ELSE IF id \notin AcpIds(a) THEN AcpError(a, -32002)
    ELSE [acp |-> AcpRemove(a, id), updates |-> <<>>, code |-> 0, finished |-> FALSE]

\* acp_on_request; a method it does not know is answered by the JSON-RPC library.
AcpOnRequest(a, line, now, agent, result) ==
    LET e == AcpEvict(a, now)
    IN  CASE line.method = "initialize" ->
                [acp |-> e, updates |-> <<>>, code |-> 0, finished |-> FALSE]
          [] line.method = "session/new" -> AcpSessionNew(e, now)
          [] line.method = "session/prompt" ->
                AcpPrompt(e, line.id, line.prompt, now, agent, result)
          [] line.method = "session/stop" -> AcpStop(e, line.id)
          [] OTHER -> AcpError(e, -32601)

\* sc_acp_handle_line: idle sessions go first, whatever the line holds.
AcpHandleLine(a, line, now, agent, result) ==
    AcpOnRequest(AcpEvict(a, now), line, now, agent, result)
=============================================================================
