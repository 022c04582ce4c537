----------------------------- MODULE EdgeProofs ------------------------------
(***************************************************************************)
(* The edges of the process: messages that come in (Ingress), calls that   *)
(* leave it (RemoteTools), the browser it drives (Browser) and the         *)
(* providers it asks (Providers).  None of RemoteSound, IngressSound,      *)
(* BrowserSound, RetriesSound and StreamFaithful is inductive as it stands.*)
(*                                                                         *)
(* For an MCP call one must know that only a call that is over has an      *)
(* answer, that it has one only from a server that ended well, and that a  *)
(* server which is waited for no longer runs.  For http and web_search one *)
(* must know that each state that exists has a call of its own.            *)
(*                                                                         *)
(* For ingress one must know that the nonces the webhook keeps are the     *)
(* last ones it accepted, in order; that the queue of the webhook and of   *)
(* the transport is, element by element, the rest of what was accepted     *)
(* after what was handed over; that a temporary file has one owner, queued *)
(* or held; and that the mail queue is empty between two polls.            *)
(*                                                                         *)
(* For the browser one must know that no two sessions share a websocket,   *)
(* that the numbers on a session's websocket are below the tool's next     *)
(* one, and that what lies on it under the number of the request in        *)
(* progress was asked by that request, of the target of the session.       *)
(*                                                                         *)
(* For the providers one must know, in every phase of a call, how much of  *)
(* each nested loop is used up; and, while a stream is read, that the      *)
(* parser and the callback are where its first k symbols bring them.       *)
(***************************************************************************)
EXTENDS RemoteTools, Ingress, Browser, Providers, SequenceTheorems, FiniteSetTheorems, WellFoundedInduction, TLAPS

-----------------------------------------------------------------------------
(* Calls that leave the process.                                           *)

LEMMA SmallestOf ==
    ASSUME NEW T, T \subseteq Nat, T # {}
    PROVE  Min(T) \in T /\ \A y \in T : Min(T) <= y
<1>1. PICK m \in T : \A y \in T : ~ (<<y, m>> \in OpToRel(<, Nat))
    BY NatLessThanWellFounded, WFMin
<1>2. ASSUME NEW y \in T PROVE m <= y
  <2>1. y \in Nat /\ m \in Nat
      OBVIOUS
  <2>2. ~(y < m)
      BY <1>1, <2>1 DEF OpToRel
  <2> QED
      BY <2>1, <2>2
<1> QED
    BY <1>2 DEF Min

-----------------------------------------------------------------------------
(* The MCP call and its server.                                            *)
McpFields == {"pc", "server", "purpose", "frames", "stream", "st", "reply", "names"}
ChildFields == {"st", "in", "out", "open", "code", "term", "deaf"}

McpInv ==
    /\ DOMAIN mcp = McpFields /\ DOMAIN child = ChildFields
    /\ \E S : mcp.stream \in Seq(S)
    /\ mcp.pc \in {"idle", "done"} => child.st \in {"none", "reaped"}
    /\ mcp.reply \in {0, 2}
    /\ mcp.reply # 0 => mcp.pc \in {"idle", "done"} /\ child.code = 0

LEMMA NoMcpFields ==
    /\ DOMAIN NoMcp = McpFields /\ NoMcp.pc = "idle" /\ NoMcp.stream = <<>> /\ NoMcp.reply = 0
    /\ DOMAIN NoChild = ChildFields /\ NoChild.st = "none" /\ NoChild.code = 0
BY DEF NoMcp, NoChild, McpFields, ChildFields

(* extract_mcp_response finds the answer to the request, or nothing.       *)
LEMMA ExtractFinds ==
    ASSUME NEW S, NEW stream \in Seq(S), NEW wanted
    PROVE  ExtractMcpResponse(stream, wanted) \in {0, wanted}
<1>1. PICK n \in Nat : n = Len(stream)
    BY LenProperties
<1>2. PICK broken : broken = {i \in 1..n : ~stream[i].whole}
    OBVIOUS
<1>3. PICK found : found = {i \in 1..n : stream[i].id = wanted /\ \A b \in broken : i < b}
    OBVIOUS
<1>4. ExtractMcpResponse(stream, wanted) = IF found = {} THEN 0 ELSE stream[Min(found)].id
    BY <1>1, <1>2, <1>3 DEF ExtractMcpResponse
<1>5. found # {} => Min(found) \in found
  <2>1. found \subseteq Nat
      BY <1>3
  <2> QED
      BY <2>1, SmallestOf
<1> QED
    BY <1>3, <1>4, <1>5

(* While a call is in progress the server process may do as it likes.      *)
LEMMA ServerSteps ==
    ASSUME McpInv, mcp' = mcp, DOMAIN child' = ChildFields, child.st = "running"
    PROVE  McpInv'
<1>1. mcp.pc \notin {"idle", "done"} /\ mcp.reply = 0
    BY DEF McpInv
<1> QED
    BY <1>1 DEF McpInv

(* So may the call, until it is over.                                      *)
LEMMA CallSteps ==
    ASSUME McpInv, mcp.pc \notin {"idle", "done"}, DOMAIN mcp' = McpFields, DOMAIN child' = ChildFields,
           \E S : mcp'.stream \in Seq(S), mcp'.reply = mcp.reply, mcp'.pc # "idle",
           mcp'.pc = "done" => child'.st = "reaped"
    PROVE  McpInv'
<1>1. mcp.reply = 0
    BY DEF McpInv
<1> QED
    BY <1>1 DEF McpInv

LEMMA McpStep ==
    ASSUME McpInv, [RemoteNext]_remoteVars
    PROVE  McpInv'
<1>0. DOMAIN mcp = McpFields /\ DOMAIN child = ChildFields /\ \E S : mcp.stream \in Seq(S)
    BY DEF McpInv
<1>1. CASE UNCHANGED <<mcp, child>>
    BY <1>1 DEF McpInv
<1>2. ASSUME NEW server, NEW purpose, NEW started \in BOOLEAN, McpSpawn(server, purpose, started)
      PROVE  McpInv'
  <2>1. PICK pc : mcp' = [NoMcp EXCEPT !.pc = pc, !.server = server, !.purpose = purpose, !.frames = 3]
                  /\ (started => pc = "write") /\ (~started => pc = "idle")
      BY <1>2 DEF McpSpawn
  <2>2. /\ DOMAIN mcp' = McpFields /\ mcp'.pc = pc /\ mcp'.stream = <<>> /\ mcp'.reply = 0
      BY <2>1, NoMcpFields DEF McpFields
  <2>3. <<>> \in Seq({})
      BY EmptySeq
  <2>4. CASE started
    <3>1. child' = [NoChild EXCEPT !.st = "running", !.open = TRUE]
        BY <1>2, <2>4 DEF McpSpawn
    <3>2. DOMAIN child' = ChildFields
        BY <3>1, NoMcpFields
    <3> QED
        BY <2>1, <2>2, <2>3, <2>4, <3>2 DEF McpInv
  <2>5. CASE ~started
    <3>1. child' = NoChild
        BY <1>2, <2>5 DEF McpSpawn
    <3> QED
        BY <2>2, <2>3, <3>1, NoMcpFields DEF McpInv
  <2> QED
      BY <2>4, <2>5
<1>3. CASE McpWriteFrame
  <2>1. CASE UNCHANGED <<mcp, child>>
      BY <1>1, <2>1
  <2>2. CASE ~UNCHANGED <<mcp, child>>
    <3>1. /\ mcp.pc = "write" /\ mcp' = [mcp EXCEPT !.frames = mcp.frames - 1]
          /\ child' = [child EXCEPT !.in = child.in + 1]
        BY <1>3, <2>2 DEF McpWriteFrame
    <3>2. /\ DOMAIN mcp' = McpFields /\ DOMAIN child' = ChildFields /\ mcp'.pc = "write"
          /\ mcp'.stream = mcp.stream /\ mcp'.reply = mcp.reply
        BY <1>0, <3>1 DEF McpFields
    <3> QED
        BY <1>0, <3>1, <3>2, CallSteps
  <2> QED
      BY <2>1, <2>2
<1>4. ASSUME NEW pc \in {"read", "wait", "kill", "terminate"}, NEW st, mcp' = [mcp EXCEPT !.pc = pc, !.st = st],
             mcp.pc \notin {"idle", "done"}, DOMAIN child' = ChildFields
      PROVE  McpInv'
  <2>1. /\ DOMAIN mcp' = McpFields /\ mcp'.pc = pc /\ mcp'.stream = mcp.stream /\ mcp'.reply = mcp.reply
      BY <1>0, <1>4 DEF McpFields
  <2> QED
      BY <1>0, <1>4, <2>1, CallSteps
<1>5. \A pc : [mcp EXCEPT !.pc = pc] = [mcp EXCEPT !.pc = pc, !.st = mcp.st]
    BY <1>0 DEF McpFields
<1>6. CASE McpWriteFails
    BY <1>0, <1>4, <1>6 DEF McpWriteFails
<1>7. CASE McpCloseInput
  <2>1. mcp.pc = "write" /\ mcp' = [mcp EXCEPT !.pc = "read"] /\ child' = child
      BY <1>7 DEF McpCloseInput
  <2> QED
      BY <1>0, <1>4, <1>5, <2>1
<1>8. CASE McpReadFrame
  <2>1. /\ mcp.pc = "read" /\ child' = [child EXCEPT !.out = Tail(child.out)]
        /\ mcp' = IF Len(mcp.stream) + 1 > McpMaxOutput THEN [mcp EXCEPT !.pc = "kill", !.st = "io"]
                  ELSE [mcp EXCEPT !.stream = Append(mcp.stream, Head(child.out))]
      BY <1>8 DEF McpReadFrame
  <2>2. DOMAIN child' = ChildFields
      BY <1>0, <2>1
  <2>3. CASE mcp' = [mcp EXCEPT !.pc = "kill", !.st = "io"]
      BY <1>4, <2>1, <2>2, <2>3
  <2>4. CASE mcp' = [mcp EXCEPT !.stream = Append(mcp.stream, Head(child.out))]
    <3>1. PICK e, s, t : e = Head(child.out) /\ s = mcp.stream /\ t = Append(s, e)
        OBVIOUS
    <3>2. PICK S : s \in Seq(S)
        BY <1>0, <3>1
    <3>3. t \in Seq(S \cup {e})
      <4>1. s \in Seq(S \cup {e}) /\ e \in S \cup {e}
          BY <3>2, SeqMonotonic
      <4> QED
          BY <3>1, <4>1, AppendProperties
    <3>4. /\ DOMAIN mcp' = McpFields /\ mcp'.pc = "read" /\ mcp'.stream = t /\ mcp'.reply = mcp.reply
        BY <1>0, <2>1, <2>4, <3>1 DEF McpFields
    <3> QED
        BY <2>1, <2>2, <3>3, <3>4, CallSteps
  <2> QED
      BY <2>1, <2>3, <2>4
<1>9. CASE McpPollTimeout
    BY <1>0, <1>4, <1>9 DEF McpPollTimeout
<1>10. CASE McpPollHangup
  <2>1. mcp.pc = "read" /\ mcp' = [mcp EXCEPT !.pc = "wait"] /\ child' = child
      BY <1>10 DEF McpPollHangup
  <2> QED
      BY <1>0, <1>4, <1>5, <2>1
<1>11. CASE McpKill
  <2>1. mcp.pc = "kill" /\ mcp' = [mcp EXCEPT !.pc = "wait"] /\ child' = [child EXCEPT !.term = TRUE]
      BY <1>11 DEF McpKill
  <2>2. DOMAIN child' = ChildFields
      BY <1>0, <2>1
  <2> QED
      BY <1>4, <1>5, <2>1, <2>2
<1>12. DOMAIN Reaped = ChildFields /\ Reaped.st = "reaped" /\ Reaped.code = child.code
    BY <1>0 DEF Reaped, ChildFields
<1>13. CASE McpWait
  <2>1. PICK reply : reply = ExtractMcpResponse(mcp.stream, 2)
      OBVIOUS
  <2>2. reply \in {0, 2}
      BY <1>0, <2>1, ExtractFinds
  <2>3. mcp.pc = "wait" /\ child' = Reaped
      BY <1>13 DEF McpWait
  <2>4. \/ child.code = 0 /\ mcp' = [mcp EXCEPT !.pc = "done", !.reply = reply]
        \/ \E st : mcp' = [mcp EXCEPT !.pc = "terminate", !.st = st]
      BY <1>13, <2>1 DEF McpWait
  <2>5. CASE child.code = 0 /\ mcp' = [mcp EXCEPT !.pc = "done", !.reply = reply]
    <3>1. /\ DOMAIN mcp' = McpFields /\ mcp'.pc = "done" /\ mcp'.stream = mcp.stream /\ mcp'.reply = reply
        BY <1>0, <2>5 DEF McpFields
    <3> QED
        BY <1>0, <1>12, <2>2, <2>3, <2>5, <3>1 DEF McpInv
  <2>6. CASE \E st : mcp' = [mcp EXCEPT !.pc = "terminate", !.st = st]
      BY <1>4, <1>12, <2>3, <2>6
  <2> QED
      BY <2>4, <2>5, <2>6
<1>14. CASE McpTerminate
  <2>1. ASSUME mcp' = [mcp EXCEPT !.pc = "done"], DOMAIN child' = ChildFields, child'.st = "reaped",
               mcp.pc = "terminate"
        PROVE  McpInv'
    <3>1. /\ DOMAIN mcp' = McpFields /\ mcp'.pc = "done" /\ mcp'.stream = mcp.stream /\ mcp'.reply = mcp.reply
        BY <1>0, <2>1 DEF McpFields
    <3> QED
        BY <1>0, <2>1, <3>1, CallSteps
  <2>2. mcp.pc = "terminate"
      BY <1>14 DEF McpTerminate
  <2>3. CASE child.st = "reaped"
    <3>1. child' = child /\ mcp' = [mcp EXCEPT !.pc = "done"]
        BY <1>14, <2>3 DEF McpTerminate
    <3> QED
        BY <1>0, <2>1, <2>2, <2>3, <3>1
  <2>4. CASE child.st # "reaped" /\ ~child.term
    <3>1. child' = [child EXCEPT !.term = TRUE] /\ mcp' = mcp
        BY <1>14, <2>4 DEF McpTerminate
    <3>2. DOMAIN child' = ChildFields
        BY <1>0, <3>1
    <3> QED
        BY <1>0, <2>2, <3>1, <3>2, CallSteps
  <2>5. CASE child.st # "reaped" /\ child.term
    <3>1. child' = Reaped /\ mcp' = [mcp EXCEPT !.pc = "done"]
        BY <1>14, <2>5 DEF McpTerminate
    <3> QED
        BY <1>12, <2>1, <2>2, <3>1
  <2> QED
      BY <2>3, <2>4, <2>5
<1>15. ASSUME NEW names, McpReturn(names) PROVE McpInv'
  <2>1. PICK n : mcp' = [mcp EXCEPT !.pc = "idle", !.names = n] /\ child' = child /\ mcp.pc = "done"
      BY <1>15 DEF McpReturn
  <2>2. /\ DOMAIN mcp' = McpFields /\ mcp'.pc = "idle" /\ mcp'.stream = mcp.stream /\ mcp'.reply = mcp.reply
      BY <1>0, <2>1 DEF McpFields
  <2> QED
      BY <2>1, <2>2 DEF McpInv
<1>16. ASSUME \/ ServerReads \/ ServerCloses \/ ServerIgnoresTerm \/ ServerDiesOfTerm
              \/ \E frame : ServerWrites(frame) \/ \E code : ServerExits(code)
       PROVE  McpInv'
  <2>1. child.st = "running" /\ mcp' = mcp
      BY <1>16 DEF ServerReads, ServerCloses, ServerIgnoresTerm, ServerDiesOfTerm, ServerWrites, ServerExits
  <2>2. DOMAIN child' = ChildFields
      BY <1>0, <1>16 DEF ServerReads, ServerCloses, ServerIgnoresTerm, ServerDiesOfTerm, ServerWrites, ServerExits
  <2> QED
      BY <2>1, <2>2, ServerSteps
<1>17. ASSUME NEW server, NEW args, NEW started \in BOOLEAN, McpInvokeStdio(server, args, started) PROVE McpInv'
    BY <1>2, <1>17 DEF McpInvokeStdio
<1>18. ASSUME NEW server, NEW started \in BOOLEAN, McpDiscoverStdio(server, started) PROVE McpInv'
    BY <1>2, <1>18 DEF McpDiscoverStdio
<1>19. ASSUME NEW server, NEW args, McpInvokeFails(server, args) \/ \E reply : McpInvokeHttp(server, args, reply)
       PROVE  UNCHANGED <<mcp, child>>
    BY <1>19 DEF McpInvokeFails, McpInvokeHttp
<1>20. ASSUME NEW args, HttpToolInvokeAsync(args) \/ \E reply : HttpToolInvoke(args, reply)
       PROVE  UNCHANGED <<mcp, child>>
    BY <1>20 DEF HttpToolInvokeAsync, HttpToolInvoke
<1>21. ASSUME NEW op, HttpToolAsyncCancelled(op) \/ \E reply : HttpToolAsyncComplete(op, reply)
       PROVE  UNCHANGED <<mcp, child>>
    BY <1>21 DEF HttpToolAsyncCancelled, HttpToolAsyncComplete
<1>22. CASE UNCHANGED remoteVars
    BY <1>1, <1>22 DEF remoteVars
<1>23. ASSUME NEW server, NEW reply, NEW names, McpDiscoverHttp(server, reply, names) PROVE McpInv'
  <2>1. PICK n : mcp' = [NoMcp EXCEPT !.server = server, !.purpose = "list", !.names = n]
      BY <1>23 DEF McpDiscoverHttp
  <2>2. mcp.pc = "idle" /\ child' = child
      BY <1>23 DEF McpDiscoverHttp
  <2>3. /\ DOMAIN mcp' = McpFields /\ mcp'.pc = "idle" /\ mcp'.stream = <<>> /\ mcp'.reply = 0
      BY <2>1, NoMcpFields DEF McpFields
  <2>4. <<>> \in Seq({})
      BY EmptySeq
  <2> QED
      BY <2>2, <2>3, <2>4 DEF McpInv
<1> QED
    BY <1>23, <1>1, <1>3, <1>6, <1>7, <1>8, <1>9, <1>10, <1>11, <1>13, <1>14, <1>15, <1>16, <1>17, <1>18, <1>19, <1>20,
       <1>21, <1>22 DEF RemoteNext

-----------------------------------------------------------------------------
(* The calls that are settled, and the states of those that are not yet.   *)
CallFields == {"kind", "times", "st"}

Unsettled(e) == DOMAIN e = CallFields /\ e.times = 0
SettledOnce(e) == DOMAIN e = CallFields /\ e.times = 1

Waits(i) == \E op \in ops : op.op = i

CallsInv ==
    /\ \E S : settled \in Seq(S)
    /\ \A i \in DOMAIN settled :
        /\ Waits(i) => Unsettled(settled[i])
        /\ ~Waits(i) => SettledOnce(settled[i])
    /\ \A op \in ops : op.op \in DOMAIN settled
    /\ \A op1, op2 \in ops : op1.op = op2.op => op1 = op2

(* A completion settles a call that was not.                               *)
LEMMA CompleteSettles ==
    ASSUME NEW S, NEW s \in Seq(S), NEW i \in DOMAIN s, Unsettled(s[i]), NEW st, NEW t, t = Complete(s, i, st)
    PROVE  /\ \E T : t \in Seq(T) /\ DOMAIN t = DOMAIN s
           /\ SettledOnce(t[i]) /\ \A j \in DOMAIN s : j # i => t[j] = s[j]
<1>1. PICK e : e = s[i]
    OBVIOUS
<1>2. PICK d : d = [e EXCEPT !.times = 1, !.st = st]
    OBVIOUS
<1>3. t = [s EXCEPT ![i] = d]
  <2>1. e.times + 1 = 1
    <3>1. e.times = 0
        BY <1>1 DEF Unsettled
    <3> QED
        BY <3>1
  <2>2. t = [s EXCEPT ![i] = [e EXCEPT !.times = e.times + 1, !.st = st]]
      BY <1>1 DEF Complete
  <2> QED
      BY <1>2, <2>1, <2>2
<1>4. SettledOnce(d)
    BY <1>1, <1>2 DEF Unsettled, SettledOnce, CallFields
<1>5. s \in Seq(S \cup {d}) /\ i \in 1..Len(s) /\ DOMAIN s = 1..Len(s)
    BY SeqMonotonic, LenProperties
<1>6. t \in Seq(S \cup {d})
    BY <1>3, <1>5, ExceptSeq
<1>7. DOMAIN t = DOMAIN s /\ t[i] = d /\ \A j \in DOMAIN s : j # i => t[j] = s[j]
    BY <1>3
<1> QED
    BY <1>4, <1>6, <1>7

(* One more call.                                                          *)
LEMMA OneMore ==
    ASSUME CallsInv, NEW e, NEW t, t = Append(settled, e)
    PROVE  /\ Len(settled) \in Nat /\ \E T : t \in Seq(T)
           /\ DOMAIN t = DOMAIN settled \cup {Len(settled) + 1} /\ Len(settled) + 1 \notin DOMAIN settled
           /\ t[Len(settled) + 1] = e /\ \A j \in DOMAIN settled : t[j] = settled[j]
<1>1. PICK S : settled \in Seq(S)
    BY DEF CallsInv
<1>2. PICK s : s = settled
    OBVIOUS
<1>3. PICK n \in Nat : n = Len(s) /\ DOMAIN s = 1..n
    BY <1>1, <1>2, LenProperties
<1>4. s \in Seq(S \cup {e}) /\ e \in S \cup {e}
    BY <1>1, <1>2, SeqMonotonic
<1>5. t \in Seq(S \cup {e}) /\ Len(t) = n + 1 /\ t[n + 1] = e /\ \A j \in 1..n : t[j] = s[j]
    BY <1>2, <1>3, <1>4, AppendProperties
<1>6. DOMAIN t = 1..(n + 1) /\ 1..(n + 1) = 1..n \cup {n + 1} /\ n + 1 \notin 1..n
    BY <1>5, LenProperties
<1> QED
    BY <1>2, <1>3, <1>5, <1>6

(* A call that is settled at once leaves no state.                         *)
LEMMA SettledAtOnce ==
    ASSUME CallsInv, ops' = ops, NEW n, n = Len(settled) + 1, n \notin DOMAIN settled,
           \E T : settled' \in Seq(T), DOMAIN settled' = DOMAIN settled \cup {n},
           SettledOnce(settled'[n]), \A j \in DOMAIN settled : settled'[j] = settled[j]
    PROVE  CallsInv'
<1>1. ~Waits(n)
    BY DEF CallsInv, Waits
<1>2. \A i : Waits(i)' <=> Waits(i)
    BY DEF Waits
<1> QED
    BY <1>1, <1>2 DEF CallsInv

LEMMA RecordKeeps ==
    ASSUME CallsInv, ops' = ops, NEW kind, NEW st, settled' = Record(kind, st)
    PROVE  CallsInv'
<1>1. PICK e : e = [kind |-> kind, times |-> 1, st |-> st]
    OBVIOUS
<1>2. SettledOnce(e)
    BY <1>1 DEF SettledOnce, CallFields
<1>3. PICK t, n : t = settled' /\ n = Len(settled) + 1
    OBVIOUS
<1>4. t = Append(settled, e)
    BY <1>1, <1>3 DEF Record
<1>5. /\ \E T : t \in Seq(T)
      /\ DOMAIN t = DOMAIN settled \cup {n} /\ n \notin DOMAIN settled
      /\ t[n] = e /\ \A j \in DOMAIN settled : t[j] = settled[j]
  <2>1. /\ \E T : t \in Seq(T)
        /\ DOMAIN t = DOMAIN settled \cup {Len(settled) + 1} /\ Len(settled) + 1 \notin DOMAIN settled
        /\ t[Len(settled) + 1] = e /\ \A j \in DOMAIN settled : t[j] = settled[j]
      BY <1>4, OneMore
  <2> QED
      BY <1>3, <2>1
<1> QED
    BY <1>2, <1>3, <1>5, SettledAtOnce

LEMMA AsyncKeeps ==
    ASSUME CallsInv, NEW args, HttpToolInvokeAsync(args)
    PROVE  CallsInv'
<1>1. PICK e : e = [kind |-> "http", times |-> 0, st |-> "ok"]
    OBVIOUS
<1>2. Unsettled(e)
    BY <1>1 DEF Unsettled, CallFields
<1>3. PICK p, n : p = Append(settled, e) /\ n = Len(settled) + 1
    OBVIOUS
<1>4. p = Pending
    BY <1>1, <1>3 DEF Pending
<1>5. /\ \E T : p \in Seq(T)
      /\ DOMAIN p = DOMAIN settled \cup {n} /\ n \notin DOMAIN settled
      /\ p[n] = e /\ \A j \in DOMAIN settled : p[j] = settled[j]
    BY <1>3, OneMore
<1>6. \/ ops' = ops /\ \E st : settled' = Complete(p, n, st)
      \/ settled' = p /\ ops' = ops \cup {[op |-> n, cancelled |-> args.cancelled]}
    BY <1>3, <1>4 DEF HttpToolInvokeAsync
<1>7. CASE ops' = ops /\ \E st : settled' = Complete(p, n, st)
  <2>1. PICK st : settled' = Complete(p, n, st)
      BY <1>7
  <2>2. PICK T : p \in Seq(T)
      BY <1>5
  <2>3. PICK t : t = settled'
      OBVIOUS
  <2>4. /\ \E U : t \in Seq(U) /\ DOMAIN t = DOMAIN p
        /\ SettledOnce(t[n]) /\ \A j \in DOMAIN p : j # n => t[j] = p[j]
    <3>1. n \in DOMAIN p /\ Unsettled(p[n])
        BY <1>2, <1>5
    <3>2. t = Complete(p, n, st)
        BY <2>1, <2>3
    <3> QED
        BY <2>2, <3>1, <3>2, CompleteSettles
  <2>5. \A j \in DOMAIN settled : t[j] = settled[j]
      BY <1>5, <2>4
  <2> QED
      BY <1>3, <1>5, <1>7, <2>3, <2>4, <2>5, SettledAtOnce
<1>8. CASE settled' = p /\ ops' = ops \cup {[op |-> n, cancelled |-> args.cancelled]}
  <2>1. PICK r : r = [op |-> n, cancelled |-> args.cancelled]
      OBVIOUS
  <2>2. r.op = n /\ ops' = ops \cup {r}
      BY <1>8, <2>1
  <2>3. Waits(n)' /\ \A i \in DOMAIN settled : Waits(i)' <=> Waits(i)
      BY <1>5, <2>2 DEF Waits
  <2>4. \A op \in ops : op.op \in DOMAIN settled /\ op.op # n
      BY <1>5 DEF CallsInv
  <2>5. \A op1, op2 \in ops' : op1.op = op2.op => op1 = op2
      BY <2>2, <2>4 DEF CallsInv
  <2>6. ASSUME NEW i \in DOMAIN p
        PROVE  (Waits(i)' => Unsettled(p[i])) /\ (~Waits(i)' => SettledOnce(p[i]))
    <3>1. CASE i = n
        BY <1>2, <1>5, <2>3, <3>1
    <3>2. CASE i \in DOMAIN settled
        BY <1>5, <2>3, <3>2 DEF CallsInv
    <3> QED
        BY <1>5, <3>1, <3>2
  <2>7. \A op \in ops' : op.op \in DOMAIN p
      BY <1>5, <2>2, <2>4
  <2> QED
      BY <1>5, <1>8, <2>5, <2>6, <2>7 DEF CallsInv
<1> QED
    BY <1>6, <1>7, <1>8

LEMMA CompletionKeeps ==
    ASSUME CallsInv, NEW op \in ops, NEW st, ops' = ops \ {op}, settled' = Complete(settled, op.op, st)
    PROVE  CallsInv'
<1>1. PICK i : i = op.op
    OBVIOUS
<1>2. i \in DOMAIN settled /\ Waits(i)
    BY <1>1 DEF CallsInv, Waits
<1>3. Unsettled(settled[i])
    BY <1>2 DEF CallsInv
<1>4. PICK S, s, t : s \in Seq(S) /\ s = settled /\ t = settled'
    BY DEF CallsInv
<1>5. /\ \E T : t \in Seq(T) /\ DOMAIN t = DOMAIN s
      /\ SettledOnce(t[i]) /\ \A j \in DOMAIN s : j # i => t[j] = s[j]
  <2>1. i \in DOMAIN s /\ Unsettled(s[i]) /\ t = Complete(s, i, st)
      BY <1>1, <1>2, <1>3, <1>4
  <2> QED
      BY <1>4, <2>1, CompleteSettles
<1>6. ~Waits(i)'
    BY <1>1 DEF CallsInv, Waits
<1>7. \A j : j # i => (Waits(j)' <=> Waits(j))
    BY <1>1 DEF Waits
<1>8. ASSUME NEW j \in DOMAIN t
      PROVE  (Waits(j)' => Unsettled(t[j])) /\ (~Waits(j)' => SettledOnce(t[j]))
  <2>1. CASE j = i
      BY <1>5, <1>6, <2>1
  <2>2. CASE j # i
    <3>1. j \in DOMAIN s /\ t[j] = s[j] /\ (Waits(j)' <=> Waits(j))
        BY <1>5, <1>7, <2>2
    <3> QED
        BY <1>4, <3>1 DEF CallsInv
  <2> QED
      BY <2>1, <2>2
<1>9. /\ \A o \in ops' : o.op \in DOMAIN t
      /\ \A op1, op2 \in ops' : op1.op = op2.op => op1 = op2
    BY <1>4, <1>5 DEF CallsInv
<1> QED
    BY <1>4, <1>5, <1>8, <1>9 DEF CallsInv

LEMMA CallsStep ==
    ASSUME CallsInv, [RemoteNext]_remoteVars
    PROVE  CallsInv'
<1>1. CASE UNCHANGED <<ops, settled>>
    BY <1>1 DEF CallsInv, Waits
<1>2. CASE ops' = ops /\ \E kind, st : settled' = Record(kind, st)
    BY <1>2, RecordKeeps
<1>3. ASSUME NEW server, NEW args,
             \/ McpInvokeFails(server, args) \/ \E reply : McpInvokeHttp(server, args, reply)
             \/ \E started : McpInvokeStdio(server, args, started) \/ McpDiscoverStdio(server, started)
      PROVE  ops' = ops /\ (settled' = settled \/ \E kind, st : settled' = Record(kind, st))
  <2>1. CASE McpInvokeFails(server, args)
      BY <2>1 DEF McpInvokeFails
  <2>2. ASSUME NEW reply, McpInvokeHttp(server, args, reply)
        PROVE  ops' = ops /\ \E kind, st : settled' = Record(kind, st)
      BY <2>2 DEF McpInvokeHttp
  <2>3. ASSUME NEW purpose, NEW started, McpSpawn(server, purpose, started)
        PROVE  ops' = ops /\ (settled' = settled \/ \E kind, st : settled' = Record(kind, st))
      BY <2>3 DEF McpSpawn
  <2>4. CASE \E started : McpInvokeStdio(server, args, started) \/ McpDiscoverStdio(server, started)
      BY <2>3, <2>4 DEF McpInvokeStdio, McpDiscoverStdio
  <2> QED
      BY <1>3, <2>1, <2>2, <2>4
<1>4. ASSUME \/ McpWriteFrame \/ McpWriteFails \/ McpCloseInput \/ McpReadFrame \/ McpPollTimeout \/ McpPollHangup
             \/ McpKill \/ McpWait \/ McpTerminate
             \/ \E server, reply, names : McpDiscoverHttp(server, reply, names)
      PROVE  UNCHANGED <<ops, settled>>
    BY <1>4 DEF McpWriteFrame, McpWriteFails, McpCloseInput, McpReadFrame, McpPollTimeout, McpPollHangup, McpKill,
                McpWait, McpTerminate, McpDiscoverHttp
<1>5. ASSUME NEW names, McpReturn(names)
      PROVE  ops' = ops /\ (settled' = settled \/ \E kind, st : settled' = Record(kind, st))
    BY <1>5 DEF McpReturn
<1>6. ASSUME \/ ServerReads \/ ServerCloses \/ ServerIgnoresTerm \/ ServerDiesOfTerm
             \/ \E frame : ServerWrites(frame) \/ \E code : ServerExits(code)
      PROVE  UNCHANGED <<ops, settled>>
    BY <1>6 DEF ServerReads, ServerCloses, ServerIgnoresTerm, ServerDiesOfTerm, ServerWrites, ServerExits
<1>7. ASSUME NEW args, NEW reply, HttpToolInvoke(args, reply)
      PROVE  ops' = ops /\ \E kind, st : settled' = Record(kind, st)
    BY <1>7 DEF HttpToolInvoke
<1>8. ASSUME NEW op \in ops, HttpToolAsyncCancelled(op) \/ \E reply : HttpToolAsyncComplete(op, reply)
      PROVE  CallsInv'
  <2>1. ops' = ops \ {op} /\ \E st : settled' = Complete(settled, op.op, st)
      BY <1>8 DEF HttpToolAsyncCancelled, HttpToolAsyncComplete
  <2> QED
      BY <2>1, CompletionKeeps
<1>9. CASE UNCHANGED remoteVars
    BY <1>1, <1>9 DEF remoteVars
<1> QED
    BY <1>1, <1>2, <1>3, <1>4, <1>5, <1>6, <1>7, <1>8, <1>9, AsyncKeeps DEF RemoteNext

-----------------------------------------------------------------------------
LEMMA RemoteStart ==
    ASSUME RemoteInit
    PROVE  McpInv /\ CallsInv
<1>1. <<>> \in Seq({}) /\ DOMAIN <<>> = {}
    BY EmptySeq
<1>2. mcp = NoMcp /\ child = NoChild /\ ops = {} /\ settled = <<>>
    BY DEF RemoteInit
<1>3. McpInv
    BY <1>1, <1>2, NoMcpFields DEF McpInv
<1>4. CallsInv
    BY <1>1, <1>2 DEF CallsInv
<1> QED
    BY <1>3, <1>4

LEMMA CompletesOnce ==
    ASSUME CallsInv
    PROVE  HttpCompletesOnce
<1>1. ASSUME NEW i \in 1..Len(settled), NEW waiting, waiting = {op \in ops : op.op = i}, NEW ended, ended = settled[i]
      PROVE  ended.times = 1 - Cardinality(waiting)
  <2>1. i \in DOMAIN settled
      BY LenProperties DEF CallsInv
  <2>2. CASE Waits(i)
    <3>1. PICK op : waiting = {op}
        BY <1>1, <2>2 DEF CallsInv, Waits
    <3>2. Cardinality(waiting) = 1
        BY <3>1, FS_Singleton
    <3>3. ended.times = 0
        BY <1>1, <2>1, <2>2 DEF CallsInv, Unsettled
    <3> QED
        BY <3>2, <3>3
  <2>3. CASE ~Waits(i)
    <3>1. waiting = {}
        BY <1>1, <2>3 DEF Waits
    <3>2. Cardinality(waiting) = 0
        BY <3>1, FS_EmptySet
    <3>3. ended.times = 1
        BY <1>1, <2>1, <2>3 DEF CallsInv, SettledOnce
    <3> QED
        BY <3>2, <3>3
  <2> QED
      BY <2>2, <2>3
<1> QED
    BY <1>1 DEF HttpCompletesOnce

(* A call that leaves the process is settled once and leaves nothing       *)
(* behind, whatever server, client and cancellation do: an MCP call that   *)
(* returned has no process left and an answer only to its own request,     *)
(* from a server that ended well, and every call is completed exactly once *)
(* (mcp_request_stdio, extract_mcp_response, http_tool_async_complete).    *)
THEOREM RemoteSoundHolds ==
    RemoteSpec => []RemoteSound
<1>1. RemoteInit => McpInv /\ CallsInv
    BY RemoteStart
<1>2. McpInv /\ CallsInv /\ [RemoteNext]_remoteVars => (McpInv /\ CallsInv)'
    BY McpStep, CallsStep
<1>3. McpInv /\ CallsInv => RemoteSound
    BY CompletesOnce DEF McpInv, McpCallSettled, RemoteSound
<1> QED
    BY <1>1, <1>2, <1>3, PTL DEF RemoteSpec

-----------------------------------------------------------------------------
(* Messages that come in.                                                  *)

(* A queue hands over in order: a is what was accepted, h what was handed  *)
(* over, q the queue.  This is AcceptedInOrder element by element.         *)
InOrder(a, h, q) ==
    /\ \E S : a \in Seq(S) /\ h \in Seq(S)
    /\ \E T : q \in Seq(T)
    /\ Len(a) = Len(h) + Len(q)
    /\ \A i \in 1..Len(h) : a[i] = h[i]
    /\ \A k \in 1..Len(q) : a[Len(h) + k] = q[k].id

LEMMA InOrderParts ==
    ASSUME NEW a, NEW h, NEW q, InOrder(a, h, q)
    PROVE  \E m \in Nat, n \in Nat :
             /\ m = Len(h) /\ n = Len(q) /\ m + n = Len(a)
             /\ DOMAIN h = 1..m /\ DOMAIN q = 1..n /\ DOMAIN a = 1..(m + n)
<1>1. PICK S : a \in Seq(S) /\ h \in Seq(S)
    BY DEF InOrder
<1>2. PICK T : q \in Seq(T)
    BY DEF InOrder
<1>3. Len(h) \in Nat /\ Len(q) \in Nat /\ DOMAIN h = 1..Len(h) /\ DOMAIN q = 1..Len(q) /\ DOMAIN a = 1..Len(a)
    BY <1>1, <1>2, LenProperties
<1>4. Len(a) = Len(h) + Len(q)
    BY DEF InOrder
<1> QED
    BY <1>3, <1>4

(* The order, stated as the property states it.                            *)
LEMMA InOrderConcat ==
    ASSUME NEW a, NEW h, NEW q, InOrder(a, h, q)
    PROVE  a = h \o [k \in DOMAIN q |-> q[k].id]
<1>1. PICK m \in Nat, n \in Nat :
             /\ m = Len(h) /\ n = Len(q) /\ m + n = Len(a)
             /\ DOMAIN h = 1..m /\ DOMAIN q = 1..n /\ DOMAIN a = 1..(m + n)
    BY InOrderParts
<1>2. PICK S : a \in Seq(S) /\ h \in Seq(S)
    BY DEF InOrder
<1> DEFINE ids == [k \in DOMAIN q |-> q[k].id]
<1>3. \A k \in 1..n : a[m + k] = q[k].id
    BY <1>1 DEF InOrder
<1>4. \A k \in 1..n : a[m + k] \in S
    BY <1>1, <1>2, ElementOfSeq
<1>5. ids \in [1..n -> S]
    BY <1>1, <1>3, <1>4
<1>6. ids \in Seq(S) /\ Len(ids) = n
    BY <1>5, SeqDef, LenProperties
<1>7. \A k \in 1..n : ids[k] = a[m + k]
    BY <1>1, <1>3
<1> HIDE DEF ids
<1> DEFINE c == h \o ids
<1>8. c \in Seq(S) /\ Len(c) = m + n
    BY <1>1, <1>2, <1>6, ConcatProperties
<1>9. \A i \in 1..(m + n) : c[i] = IF i <= m THEN h[i] ELSE ids[i - m]
    BY <1>1, <1>2, <1>6, ConcatProperties
<1>10. \A i \in 1..m : a[i] = h[i]
    BY <1>1 DEF InOrder
<1> HIDE DEF c
<1>11. ASSUME NEW i \in 1..(m + n) PROVE c[i] = a[i]
  <2>1. CASE i <= m
    <3>1. i \in 1..m
        BY <2>1
    <3> QED
        BY <1>9, <1>10, <2>1, <3>1
  <2>2. CASE ~(i <= m)
    <3>1. i - m \in 1..n /\ m + (i - m) = i
        BY <2>2
    <3> QED
        BY <1>7, <1>9, <2>2, <3>1
  <2> QED
      BY <2>1, <2>2
<1>12. a = c
    BY <1>1, <1>2, <1>8, <1>11, SeqEqual
<1> QED
    BY <1>12 DEF c, ids

(* A message is accepted: it is the last of the queue.                     *)
LEMMA InOrderAccepts ==
    ASSUME NEW a, NEW h, NEW q, NEW x, InOrder(a, h, q)
    PROVE  InOrder(Append(a, x.id), h, Append(q, x))
<1>1. PICK m \in Nat, n \in Nat :
             /\ m = Len(h) /\ n = Len(q) /\ m + n = Len(a)
             /\ DOMAIN h = 1..m /\ DOMAIN q = 1..n /\ DOMAIN a = 1..(m + n)
    BY InOrderParts
<1>2. PICK S : a \in Seq(S) /\ h \in Seq(S)
    BY DEF InOrder
<1>3. PICK T : q \in Seq(T)
    BY DEF InOrder
<1>4. PICK b : b = Append(a, x.id)
    OBVIOUS
<1>5. PICK p : p = Append(q, x)
    OBVIOUS
<1>6. /\ a \in Seq(S \cup {x.id}) /\ h \in Seq(S \cup {x.id}) /\ q \in Seq(T \cup {x})
      /\ x.id \in S \cup {x.id} /\ x \in T \cup {x}
    BY <1>2, <1>3, SeqMonotonic
<1>7. b \in Seq(S \cup {x.id}) /\ Len(b) = m + n + 1 /\ b[m + n + 1] = x.id /\ \A i \in 1..(m + n) : b[i] = a[i]
  <2>1. PICK l \in Nat : l = m + n /\ l = Len(a)
      BY <1>1
  <2>2. b \in Seq(S \cup {x.id}) /\ Len(b) = l + 1 /\ b[l + 1] = x.id /\ \A i \in 1..l : b[i] = a[i]
      BY <1>4, <1>6, <2>1, AppendProperties
  <2> QED
      BY <2>1, <2>2
<1>8. p \in Seq(T \cup {x}) /\ Len(p) = n + 1 /\ p[n + 1] = x /\ \A i \in 1..n : p[i] = q[i]
    BY <1>1, <1>5, <1>6, AppendProperties
<1>9. /\ \A i \in 1..m : a[i] = h[i]
      /\ \A k \in 1..n : a[m + k] = q[k].id
    BY <1>1 DEF InOrder
<1>10. \A i \in 1..m : b[i] = h[i]
    BY <1>7, <1>9
<1>11. ASSUME NEW k \in 1..(n + 1) PROVE b[m + k] = p[k].id
  <2>1. CASE k = n + 1
      BY <1>7, <1>8, <2>1
  <2>2. CASE k # n + 1
    <3>1. k \in 1..n /\ m + k \in 1..(m + n)
        BY <2>2
    <3> QED
        BY <1>7, <1>8, <1>9, <3>1
  <2> QED
      BY <2>1, <2>2
<1>12. InOrder(b, h, p)
    BY <1>1, <1>6, <1>7, <1>8, <1>10, <1>11 DEF InOrder
<1> QED
    BY <1>4, <1>5, <1>12

(* The head is handed over.                                                *)
LEMMA InOrderHands ==
    ASSUME NEW a, NEW h, NEW q, InOrder(a, h, q), q # <<>>
    PROVE  InOrder(a, Append(h, Head(q).id), Tail(q))
<1>1. PICK m \in Nat, n \in Nat :
             /\ m = Len(h) /\ n = Len(q) /\ m + n = Len(a)
             /\ DOMAIN h = 1..m /\ DOMAIN q = 1..n /\ DOMAIN a = 1..(m + n)
    BY InOrderParts
<1>2. PICK S : a \in Seq(S) /\ h \in Seq(S)
    BY DEF InOrder
<1>3. PICK T : q \in Seq(T)
    BY DEF InOrder
<1>4. /\ \A i \in 1..m : a[i] = h[i]
      /\ \A k \in 1..n : a[m + k] = q[k].id
    BY <1>1 DEF InOrder
<1>5. n >= 1 /\ Head(q) = q[1]
    BY <1>1, <1>3, EmptySeq, HeadTailProperties
<1>6. PICK g : g = Append(h, Head(q).id)
    OBVIOUS
<1>7. PICK p : p = Tail(q)
    OBVIOUS
<1>8. p \in Seq(T) /\ Len(p) = n - 1 /\ \A i \in 1..(n - 1) : p[i] = q[i + 1]
    BY <1>1, <1>3, <1>7, HeadTailProperties
<1>9. a[m + 1] = q[1].id
    BY <1>4, <1>5
<1>10. a[m + 1] \in S
    BY <1>1, <1>2, <1>5, ElementOfSeq
<1>11. g \in Seq(S) /\ Len(g) = m + 1 /\ g[m + 1] = q[1].id /\ \A i \in 1..m : g[i] = h[i]
    BY <1>1, <1>2, <1>5, <1>6, <1>9, <1>10, AppendProperties
<1>12. ASSUME NEW i \in 1..(m + 1) PROVE a[i] = g[i]
  <2>1. i = m + 1 \/ i \in 1..m
      OBVIOUS
  <2> QED
      BY <1>4, <1>9, <1>11, <2>1
<1>13. ASSUME NEW k \in 1..(n - 1) PROVE a[m + 1 + k] = p[k].id
  <2>1. k + 1 \in 1..n /\ m + 1 + k = m + (k + 1)
      OBVIOUS
  <2> QED
      BY <1>4, <1>8, <2>1
<1>14. InOrder(a, g, p)
    BY <1>1, <1>2, <1>5, <1>8, <1>11, <1>12, <1>13 DEF InOrder
<1> QED
    BY <1>6, <1>7, <1>14

-----------------------------------------------------------------------------
(* The nonces remembered (kept) are the last ones accepted (all), all of   *)
(* them up to the limit, and equal ones are further apart than that.       *)
Spaced(all) == \A i, j \in DOMAIN all : i < j /\ all[i] = all[j] => j - i > MaxNonces

Remembered(all, kept) ==
    /\ \E S : all \in Seq(S) /\ kept \in Seq(S)
    /\ Len(kept) <= Len(all) /\ Len(kept) <= MaxNonces
    /\ Len(kept) = Len(all) \/ Len(kept) = MaxNonces
    /\ \A i \in 1..Len(kept) : kept[i] = all[Len(all) - Len(kept) + i]
    /\ Spaced(all)

(* webhook_forget_nonce_at drops the oldest.                               *)
LEMMA OldestForgotten ==
    ASSUME NEW S, NEW s \in Seq(S), NEW n \in Nat, n = Len(s), n # 0, NEW f, f = WebhookForgetNonceAt(s, 1)
    PROVE  f \in Seq(S) /\ Len(f) = n - 1 /\ \A i \in 1..(n - 1) : f[i] = s[i + 1]
<1>1. f = SubSeq(s, 1, 1 - 1) \o SubSeq(s, 1 + 1, n)
    BY DEF WebhookForgetNonceAt, RemoveAt
<1>2. PICK e : e = SubSeq(s, 1, 1 - 1)
    OBVIOUS
<1>3. PICK t : t = SubSeq(s, 1 + 1, n)
    OBVIOUS
<1>4. e \in Seq(S) /\ Len(e) = 0
  <2>1. \A i \in 1..0 : s[i] \in S
      OBVIOUS
  <2>2. e \in Seq(S) /\ Len(e) = (IF 1 <= 0 THEN 0 - 1 + 1 ELSE 0)
      BY <1>2, <2>1, SubSeqProperties
  <2> QED
      BY <2>2
<1>5. t \in Seq(S) /\ Len(t) = n - 1 /\ \A i \in 1..(n - 1) : t[i] = s[i + 1]
  <2>1. \A i \in 2..n : s[i] \in S
      BY ElementOfSeq
  <2>2. /\ t \in Seq(S) /\ Len(t) = (IF 2 <= n THEN n - 2 + 1 ELSE 0)
        /\ \A i \in 1..(n - 2 + 1) : t[i] = s[2 + i - 1]
      BY <1>3, <2>1, SubSeqProperties
  <2> QED
      BY <2>2
<1>6. e = <<>>
    BY <1>4, EmptySeq
<1>7. f = t
    BY <1>1, <1>2, <1>3, <1>5, <1>6, ConcatEmptySeq
<1> QED
    BY <1>5, <1>7

(* A nonce that is not remembered is let in, and remembered.               *)
LEMMA NonceRemembered ==
    ASSUME NEW all, NEW kept, NEW x, Remembered(all, kept), x \notin ToSet(kept),
           NEW rest, rest = WebhookMakeRoom(kept)
    PROVE  Remembered(Append(all, x), Append(rest, x))
<1>0. MaxNonces \in Nat /\ MaxNonces # 0
    BY IngressAssumption
<1>1. PICK S : all \in Seq(S) /\ kept \in Seq(S)
    BY DEF Remembered
<1>2. PICK n \in Nat : n = Len(all)
    BY <1>1, LenProperties
<1>3. PICK k \in Nat : k = Len(kept)
    BY <1>1, LenProperties
<1>4. k <= n /\ k <= MaxNonces /\ (k = n \/ k = MaxNonces) /\ \A i \in 1..k : kept[i] = all[n - k + i]
    BY <1>2, <1>3 DEF Remembered
<1>5. rest = IF k >= MaxNonces THEN WebhookForgetNonceAt(kept, 1) ELSE kept
    BY <1>3 DEF WebhookMakeRoom
<1>6. PICK l \in Nat :
        /\ l = (IF k = MaxNonces THEN k - 1 ELSE k) /\ rest \in Seq(S) /\ Len(rest) = l
        /\ \A i \in 1..l : rest[i] = all[n - l + i]
  <2>1. CASE k = MaxNonces
    <3>1. rest = WebhookForgetNonceAt(kept, 1)
        BY <1>0, <1>5, <2>1
    <3>2. rest \in Seq(S) /\ Len(rest) = k - 1 /\ \A i \in 1..(k - 1) : rest[i] = kept[i + 1]
      <4>1. kept \in Seq(S) /\ k = Len(kept) /\ k # 0
          BY <1>0, <1>1, <1>3, <2>1
      <4> QED
          BY <3>1, <4>1, OldestForgotten
    <3>3. \A i \in 1..(k - 1) : rest[i] = all[n - (k - 1) + i]
      <4>1. ASSUME NEW i \in 1..(k - 1) PROVE rest[i] = all[n - (k - 1) + i]
        <5>1. i + 1 \in 1..k /\ n - k + (i + 1) = n - (k - 1) + i
            OBVIOUS
        <5> QED
            BY <1>4, <3>2, <5>1
      <4> QED
          BY <4>1
    <3>4. k - 1 \in Nat
        BY <1>0, <2>1
    <3> QED
        BY <2>1, <3>2, <3>3, <3>4
  <2>2. CASE k # MaxNonces
    <3>1. rest = kept
        BY <1>0, <1>4, <1>5, <2>2
    <3> QED
        BY <1>1, <1>3, <1>4, <2>2, <3>1
  <2> QED
      BY <2>1, <2>2
<1>7. all \in Seq(S \cup {x}) /\ rest \in Seq(S \cup {x}) /\ x \in S \cup {x}
    BY <1>1, <1>6, SeqMonotonic
<1>8. PICK b : b = Append(all, x)
    OBVIOUS
<1>9. PICK next : next = Append(rest, x)
    OBVIOUS
<1>10. b \in Seq(S \cup {x}) /\ Len(b) = n + 1 /\ b[n + 1] = x /\ \A i \in 1..n : b[i] = all[i]
    BY <1>2, <1>7, <1>8, AppendProperties
<1>11. next \in Seq(S \cup {x}) /\ Len(next) = l + 1 /\ next[l + 1] = x /\ \A i \in 1..l : next[i] = rest[i]
  <2>1. rest \in Seq(S \cup {x}) /\ x \in S \cup {x} /\ Len(rest) = l
      BY <1>6, <1>7
  <2> QED
      BY <1>9, <2>1, AppendProperties
<1>12. l + 1 <= n + 1 /\ l + 1 <= MaxNonces /\ (l + 1 = n + 1 \/ l + 1 = MaxNonces)
    BY <1>0, <1>4, <1>6
<1>13. ASSUME NEW i \in 1..(l + 1) PROVE next[i] = b[(n + 1) - (l + 1) + i]
  <2>1. CASE i = l + 1
      BY <1>10, <1>11, <1>12, <2>1
  <2>2. CASE i # l + 1
    <3>1. i \in 1..l /\ n - l + i \in 1..n /\ (n + 1) - (l + 1) + i = n - l + i
        BY <1>12, <2>2
    <3> QED
        BY <1>6, <1>10, <1>11, <3>1
  <2> QED
      BY <2>1, <2>2
<1>14. DOMAIN b = 1..(n + 1) /\ DOMAIN all = 1..n /\ DOMAIN kept = 1..k
    BY <1>1, <1>2, <1>3, <1>10, LenProperties
<1>15. ASSUME NEW i \in 1..(n + 1), NEW j \in 1..(n + 1), i < j, b[i] = b[j] PROVE j - i > MaxNonces
  <2>1. CASE j # n + 1
    <3>1. i \in 1..n /\ j \in 1..n
        BY <1>15, <2>1
    <3>2. all[i] = all[j]
        BY <1>10, <1>15, <3>1
    <3> QED
        BY <1>14, <1>15, <3>1, <3>2 DEF Remembered, Spaced
  <2>2. CASE j = n + 1
    <3>1. i \in 1..n /\ all[i] = x
        BY <1>10, <1>15, <2>2
    <3>2. ~(i > n - k)
      <4>1. SUFFICES ASSUME i > n - k PROVE FALSE
          OBVIOUS
      <4>2. i - (n - k) \in 1..k /\ n - k + (i - (n - k)) = i
          BY <1>4, <3>1, <4>1
      <4>3. kept[i - (n - k)] = x
          BY <1>4, <3>1, <4>2
      <4> QED
          BY <1>14, <4>2, <4>3 DEF ToSet
    <3>3. k = MaxNonces
        BY <1>4, <3>1, <3>2
    <3> QED
        BY <1>0, <2>2, <3>1, <3>2, <3>3
  <2> QED
      BY <2>1, <2>2
<1>16. Spaced(b)
    BY <1>14, <1>15 DEF Spaced
<1>17. Remembered(b, next)
    BY <1>10, <1>11, <1>12, <1>13, <1>16 DEF Remembered
<1> QED
    BY <1>8, <1>9, <1>17

-----------------------------------------------------------------------------
(* The inductive invariant: besides the parts of IngressSound, only a      *)
(* message of the webhook owns a file, and the mail channel's queue is     *)
(* empty between two polls.  Once a queued message was freed nothing is    *)
(* said of the webhook's queue until the next start.                       *)
HookFields ==
    {"path", "token", "ips", "limit", "maxBody", "maxMedia", "window", "start", "count", "nonces", "inbox",
     "freed"}
MailFields == {"url", "smtp", "to", "senders", "prefix", "dir", "maxBytes", "inbox", "sent"}

HookShape == DOMAIN hook = HookFields
MailShape == DOMAIN mail = {"ch", "box", "delivered"} /\ DOMAIN mail.ch = MailFields /\ mail.ch.inbox = <<>>
BusShape ==
    /\ DOMAIN bus = {"st", "inbox", "sent"}
    /\ \A k \in DOMAIN bus.inbox : bus.inbox[k].temporary = FALSE
RecordShape ==
    /\ DOMAIN record = IngressChannels
    /\ \A c \in IngressChannels : DOMAIN record[c] = {"accepted", "handed", "nonces"}

NonceInv == Remembered(record["webhook"].nonces, hook.nonces)
OrderInv == InOrder(record["webhook"].accepted, record["webhook"].handed, hook.inbox)
BusInv == InOrder(record["transport"].accepted, record["transport"].handed, bus.inbox)

IngressInv ==
    /\ HookShape /\ MailShape /\ BusShape /\ RecordShape /\ BusInv
    /\ hook.freed \/ (NonceInv /\ OrderInv /\ AttachmentsOwned)

(* An attachment is stored under a name that was free.                     *)
LEMMA StoredAnew ==
    ASSUME NEW h, NEW att, NEW files, NEW full
    PROVE  /\ files \subseteq WebhookStoreMedia(h, att, files, full).files
           /\ WebhookStoreMedia(h, att, files, full).st = "ok" =>
                /\ att.id \notin files
                /\ att.id \in WebhookStoreMedia(h, att, files, full).files
BY DEF WebhookStoreMedia, WebhookScreenMedia

LEMMA ParseStores ==
    ASSUME NEW h, NEW r, NEW files, NEW full, NEW p, p = ParseWebhookBody(h, r, files, full)
    PROVE  /\ files \subseteq p.files
           /\ p.in.temporary \in BOOLEAN
           /\ p.in.temporary => p.in.file \in p.files \ files
BY StoredAnew DEF ParseWebhookBody

(* The rate window is all that the rate check changes.                     *)
LEMMA RateKeeps ==
    ASSUME NEW h, DOMAIN h = HookFields, NEW g, g = WebhookCheckRateLimit(h).h
    PROVE  DOMAIN g = HookFields /\ g.inbox = h.inbox /\ g.nonces = h.nonces /\ g.freed = h.freed
<1>1. PICK w : w = RateWindow(h)
    OBVIOUS
<1>2. DOMAIN w = HookFields /\ w.inbox = h.inbox /\ w.nonces = h.nonces /\ w.freed = h.freed
    BY <1>1 DEF RateWindow, HookFields
<1>3. g \in {h, w, [w EXCEPT !.count = @ + 1]}
    BY <1>1 DEF WebhookCheckRateLimit
<1> QED
    BY <1>2, <1>3 DEF HookFields

(* A step that accepts and hands over nothing, and takes no file away.     *)
Quiet ==
    /\ HookShape' /\ MailShape' /\ DOMAIN bus' = {"st", "inbox", "sent"}
    /\ hook'.inbox = hook.inbox /\ hook'.nonces = hook.nonces /\ hook'.freed = hook.freed
    /\ bus'.inbox = bus.inbox
    /\ UNCHANGED <<held, record>>
    /\ tmp \subseteq tmp'

LEMMA QuietStep ==
    ASSUME IngressInv, Quiet
    PROVE  IngressInv'
<1>1. ASSUME AttachmentsOwned PROVE AttachmentsOwned'
  <2>1. Owners' = Owners
      BY DEF Quiet, Owners
  <2> QED
      BY <1>1, <2>1 DEF AttachmentsOwned, Quiet
<1>2. (NonceInv => NonceInv') /\ (OrderInv => OrderInv') /\ BusInv'
    BY DEF IngressInv, NonceInv, OrderInv, BusInv, Quiet
<1>3. BusShape' /\ RecordShape'
    BY DEF IngressInv, BusShape, RecordShape, Quiet
<1>4. hook'.freed = hook.freed
    BY DEF Quiet
<1> QED
    BY <1>1, <1>2, <1>3, <1>4 DEF IngressInv, Quiet

(* The steps outside the queues.                                           *)
LEMMA ElsewhereKeeps ==
    ASSUME IngressInv,
           \/ TransportSend("t") \/ MailServer \/ (\E ok \in BOOLEAN : MailSend([reply |-> "1", text |-> "t"], ok))
           \/ (\E r \in Named : RouterIngest(r)) \/ ClockMoves \/ UNCHANGED ingressVars
    PROVE  IngressInv'
<1>1. HookShape /\ MailShape /\ BusShape
    BY DEF IngressInv
<1>2. CASE TransportSend("t")
  <2>1. UNCHANGED <<hook, mail, held, record, tmp>> /\ \E s : bus' = [bus EXCEPT !.sent = s]
      BY <1>2 DEF TransportSend
  <2>2. Quiet
      BY <1>1, <2>1 DEF Quiet, HookShape, MailShape, BusShape
  <2> QED
      BY <2>2, QuietStep
<1>3. CASE MailServer
  <2>1. UNCHANGED <<hook, bus, held, record, tmp>> /\ \E b : mail' = [mail EXCEPT !.box = b]
      BY <1>3 DEF MailServer
  <2>2. Quiet
      BY <1>1, <2>1 DEF Quiet, HookShape, MailShape, BusShape
  <2> QED
      BY <2>2, QuietStep
<1>4. CASE \E ok \in BOOLEAN : MailSend([reply |-> "1", text |-> "t"], ok)
  <2>1. UNCHANGED <<hook, bus, held, record, tmp>>
      BY <1>4 DEF MailSend
  <2>2. mail' = mail \/ \E s, d : mail' = [mail EXCEPT !.ch.sent = s, !.delivered = d]
      BY <1>4 DEF MailSend
  <2>3. MailShape'
      BY <1>1, <2>2 DEF MailShape, MailFields
  <2>4. Quiet
      BY <1>1, <2>1, <2>3 DEF Quiet, HookShape, BusShape
  <2> QED
      BY <2>4, QuietStep
<1>5. CASE (\E r \in Named : RouterIngest(r)) \/ ClockMoves \/ UNCHANGED ingressVars
  <2>1. UNCHANGED <<hook, mail, bus, held, record, tmp>>
      BY <1>5 DEF RouterIngest, ClockMoves, ingressVars
  <2>2. Quiet
      BY <1>1, <2>1 DEF Quiet, HookShape, MailShape, BusShape
  <2> QED
      BY <2>2, QuietStep
<1> QED
    BY <1>2, <1>3, <1>4, <1>5


(* A request without a nonce.                                              *)
NoNonce(nonce) == nonce = ""

(* webhook_remember_nonce changes the nonces only.                         *)
LEMMA RememberKeeps ==
    ASSUME NEW h, DOMAIN h = HookFields, NEW nonce, NEW g, g = WebhookRememberNonce(h, nonce)
    PROVE  /\ DOMAIN g = HookFields /\ g.inbox = h.inbox /\ g.freed = h.freed
           /\ NoNonce(nonce) => g.nonces = h.nonces
           /\ ~NoNonce(nonce) =>
                \E rest : /\ rest = WebhookMakeRoom(h.nonces)
                          /\ g.nonces = Append(rest, nonce)
<1> DEFINE rest == WebhookMakeRoom(h.nonces)
<1>1. NoNonce(nonce) => g = h
    BY DEF WebhookRememberNonce, NoNonce
<1>2. ~NoNonce(nonce) => g = [h EXCEPT !.nonces = Append(rest, nonce)]
    BY DEF WebhookRememberNonce, NoNonce
<1> HIDE DEF rest
<1>3. ~NoNonce(nonce) =>
        DOMAIN g = HookFields /\ g.inbox = h.inbox /\ g.freed = h.freed /\ g.nonces = Append(rest, nonce)
  <2>1. \A e : LET f == [h EXCEPT !.nonces = e]
               IN  DOMAIN f = HookFields /\ f.inbox = h.inbox /\ f.freed = h.freed /\ f.nonces = e
      BY DEF HookFields
  <2> QED
      BY <1>2, <2>1
<1> QED
    BY <1>1, <1>3 DEF rest

(* The new message is the only owner of its file.                          *)
LEMMA OwnedByNew ==
    ASSUME AttachmentsOwned, (\E T : hook.inbox \in Seq(T)), NEW in, in.temporary => in.file \in tmp' \ tmp,
           hook'.inbox = Append(hook.inbox, in), held' = held, tmp \subseteq tmp'
    PROVE  AttachmentsOwned'
<1>1. PICK T : hook.inbox \in Seq(T)
    OBVIOUS
<1>2. PICK n \in Nat : n = Len(hook.inbox)
    BY <1>1, LenProperties
<1>3. PICK q : q = hook.inbox
    OBVIOUS
<1>4. PICK p : p = Append(q, in)
    OBVIOUS
<1>5. q \in Seq(T \cup {in}) /\ in \in T \cup {in} /\ Len(q) = n /\ DOMAIN q = 1..n
    BY <1>1, <1>2, <1>3, SeqMonotonic, LenProperties
<1>6. /\ Len(p) = n + 1 /\ DOMAIN p = 1..(n + 1) /\ p[n + 1] = in
      /\ \A i \in 1..n : p[i] = q[i]
    BY <1>4, <1>5, AppendProperties, LenProperties
<1>7. hook'.inbox = p
    BY <1>3, <1>4
<1>8. \A i \in 1..(n + 1) : i = n + 1 \/ i \in 1..n
    OBVIOUS
<1>9. \A i \in 1..n : q[i] \in Owners
    BY <1>3, <1>5 DEF Owners
<1>10. \A m \in Owners' : m = in \/ m \in Owners
    BY <1>6, <1>7, <1>8, <1>9 DEF Owners
<1>11. \A m \in Owners : m.temporary => m.file \in tmp /\ ~(in.temporary /\ m.file = in.file)
    BY DEF AttachmentsOwned
<1>12. \A m \in Owners' : m.temporary => m.file \in tmp'
    BY <1>10, <1>11
<1>13. \A m \in held : m \in Owners
    BY DEF Owners
<1>14. ASSUME NEW i \in DOMAIN p, NEW j \in DOMAIN p, i # j
       PROVE  ~(p[i].temporary /\ p[j].temporary /\ p[i].file = p[j].file)
  <2>1. CASE i \in 1..n /\ j \in 1..n
      BY <1>3, <1>5, <1>6, <1>14, <2>1 DEF AttachmentsOwned
  <2>2. CASE i = n + 1 /\ j \in 1..n
      BY <1>6, <1>9, <1>11, <2>2
  <2>3. CASE i \in 1..n /\ j = n + 1
      BY <1>6, <1>9, <1>11, <2>3
  <2> QED
      BY <1>6, <1>8, <1>14, <2>1, <2>2, <2>3
<1>15. ASSUME NEW m \in held, NEW k \in DOMAIN p
       PROVE  ~(m.temporary /\ p[k].temporary /\ m.file = p[k].file)
  <2>1. CASE k \in 1..n
      BY <1>3, <1>5, <1>6, <2>1 DEF AttachmentsOwned
  <2>2. CASE k = n + 1
      BY <1>6, <1>11, <1>13, <2>2
  <2> QED
      BY <1>6, <1>8, <2>1, <2>2
<1>16. \A m, o \in held : m # o => ~(m.temporary /\ o.temporary /\ m.file = o.file)
    BY DEF AttachmentsOwned
<1> QED
    BY <1>7, <1>12, <1>14, <1>15, <1>16 DEF AttachmentsOwned

(* A request: refused it leaves the queue as it is, accepted it puts one   *)
(* message into it.                                                        *)
LEMMA IngestKeeps ==
    ASSUME IngressInv, NEW r \in Requests, NEW full \in BOOLEAN, NEW fails \in {"no", "store", "nonce"},
           Ingest(r, full, fails)
    PROVE  IngressInv'
<1>0. HookShape /\ MailShape /\ BusShape /\ RecordShape /\ BusInv
    BY DEF IngressInv
<1>1. PICK g : g = WebhookCheckRateLimit(hook).h
    OBVIOUS
<1>2. PICK p : p = ParseWebhookBody(hook, r, tmp, full)
    OBVIOUS
<1>3. DOMAIN g = HookFields /\ g.inbox = hook.inbox /\ g.nonces = hook.nonces /\ g.freed = hook.freed
    BY <1>0, <1>1, RateKeeps DEF HookShape
<1>4. tmp \subseteq p.files /\ p.in.temporary \in BOOLEAN /\ (p.in.temporary => p.in.file \in p.files \ tmp)
    BY <1>2, ParseStores
<1>5. UNCHANGED <<mail, bus, held>>
    BY DEF Ingest
<1>6. CASE hook' \in {hook, g} /\ tmp' \in {tmp, p.files, InboundClear(p.in, p.files)} /\ UNCHANGED record
  <2>1. tmp \subseteq tmp'
      BY <1>4, <1>6 DEF InboundClear
  <2>2. HookShape' /\ hook'.inbox = hook.inbox /\ hook'.nonces = hook.nonces /\ hook'.freed = hook.freed
      BY <1>0, <1>3, <1>6 DEF HookShape
  <2>3. Quiet
      BY <1>0, <1>5, <1>6, <2>1, <2>2 DEF Quiet, MailShape, BusShape
  <2> QED
      BY <2>3, QuietStep
<1>7. CASE /\ WebhookCheckReplay(hook, r) = "ok"
           /\ hook' = WebhookRememberNonce([g EXCEPT !.inbox = Append(@, p.in)], r.nonce)
           /\ tmp' = p.files
           /\ record' = [Note("webhook", p.in) EXCEPT !["webhook"].nonces =
                             IF r.nonce = "" THEN @ ELSE Append(@, r.nonce)]
  <2>1. PICK f : f = [g EXCEPT !.inbox = Append(@, p.in)]
      OBVIOUS
  <2>2. DOMAIN f = HookFields /\ f.inbox = Append(hook.inbox, p.in) /\ f.nonces = hook.nonces /\ f.freed = hook.freed
      BY <1>3, <2>1 DEF HookFields
  <2>3. hook' = WebhookRememberNonce(f, r.nonce)
      BY <1>7, <2>1
  <2>4. HookShape' /\ hook'.inbox = Append(hook.inbox, p.in) /\ hook'.freed = hook.freed
      BY <2>2, <2>3, RememberKeeps DEF HookShape
  <2>5. PICK n : n = IF r.nonce = "" THEN record["webhook"].nonces ELSE Append(record["webhook"].nonces, r.nonce)
      OBVIOUS
  <2>6. /\ DOMAIN record' = IngressChannels
        /\ \A c \in IngressChannels : DOMAIN record'[c] = {"accepted", "handed", "nonces"}
        /\ record'["webhook"].accepted = Append(record["webhook"].accepted, p.in.id)
        /\ record'["webhook"].handed = record["webhook"].handed
        /\ record'["webhook"].nonces = n
        /\ record'["transport"] = record["transport"]
    <3>1. PICK t : t = Note("webhook", p.in)
        OBVIOUS
    <3>2. /\ DOMAIN t = IngressChannels
          /\ \A c \in IngressChannels : DOMAIN t[c] = {"accepted", "handed", "nonces"}
          /\ t["webhook"].accepted = Append(record["webhook"].accepted, p.in.id)
          /\ t["webhook"].handed = record["webhook"].handed
          /\ t["webhook"].nonces = record["webhook"].nonces
          /\ t["transport"] = record["transport"]
        BY <1>0, <3>1 DEF Note, RecordShape, IngressChannels
    <3>3. record' = [t EXCEPT !["webhook"].nonces = n]
        BY <1>7, <2>5, <3>1, <3>2
    <3> QED
        BY <3>2, <3>3 DEF IngressChannels
  <2>7. ASSUME NonceInv PROVE NonceInv'
    <3>1. CASE NoNonce(r.nonce)
      <4>1. n = record["webhook"].nonces
          BY <2>5, <3>1 DEF NoNonce
      <4>2. hook'.nonces = hook.nonces
          BY <2>2, <2>3, <3>1, RememberKeeps
      <4> QED
          BY <2>6, <2>7, <4>1, <4>2 DEF NonceInv
    <3>2. CASE ~NoNonce(r.nonce)
      <4>1. n = Append(record["webhook"].nonces, r.nonce)
          BY <2>5, <3>2 DEF NoNonce
      <4>2. PICK rest : rest = WebhookMakeRoom(hook.nonces) /\ hook'.nonces = Append(rest, r.nonce)
        <5>1. PICK w, x : w = hook' /\ x = r.nonce
            OBVIOUS
        <5>2. w = WebhookRememberNonce(f, x) /\ ~NoNonce(x)
            BY <2>3, <3>2, <5>1
        <5>3. PICK rest : rest = WebhookMakeRoom(f.nonces) /\ w.nonces = Append(rest, x)
            BY <2>2, <5>2, RememberKeeps
        <5> QED
            BY <2>2, <5>1, <5>3
      <4>3. r.nonce \notin ToSet(hook.nonces)
          BY <1>7, <3>2 DEF WebhookCheckReplay, NoNonce
      <4>4. PICK all, kept, x : all = record["webhook"].nonces /\ kept = hook.nonces /\ x = r.nonce
          OBVIOUS
      <4>5. Remembered(all, kept) /\ x \notin ToSet(kept)
          BY <2>7, <4>3, <4>4 DEF NonceInv
      <4>6. rest = WebhookMakeRoom(kept)
          BY <4>2, <4>4
      <4>7. Remembered(Append(all, x), Append(rest, x))
          BY <4>5, <4>6, NonceRemembered
      <4> QED
          BY <2>6, <4>1, <4>2, <4>4, <4>7 DEF NonceInv
    <3> QED
        BY <3>1, <3>2
  <2>8. ASSUME OrderInv PROVE OrderInv'
    <3>1. PICK a, h, q, x : a = record["webhook"].accepted /\ h = record["webhook"].handed /\ q = hook.inbox /\ x = p.in
        OBVIOUS
    <3>2. InOrder(Append(a, x.id), h, Append(q, x))
        BY <2>8, <3>1, InOrderAccepts DEF OrderInv
    <3> QED
        BY <2>4, <2>6, <3>1, <3>2 DEF OrderInv
  <2>9. ASSUME OrderInv, AttachmentsOwned PROVE AttachmentsOwned'
    <3>1. \E T : hook.inbox \in Seq(T)
        BY <2>9 DEF OrderInv, InOrder
    <3> QED
        BY <1>4, <1>5, <1>7, <2>4, <2>9, <3>1, OwnedByNew
  <2>10. MailShape' /\ BusShape' /\ RecordShape' /\ BusInv'
      BY <1>0, <1>5, <2>6 DEF MailShape, BusShape, RecordShape, BusInv
  <2> QED
      BY <2>4, <2>7, <2>8, <2>9, <2>10 DEF IngressInv
<1>8. CASE /\ hook' = [g EXCEPT !.inbox = Append(@, p.in), !.nonces = WebhookMakeRoom(@), !.freed = TRUE]
           /\ record' = Note("webhook", p.in)
  <2>1. DOMAIN hook' = HookFields /\ hook'.freed
      BY <1>3, <1>8 DEF HookFields
  <2>2. RecordShape' /\ record'["transport"] = record["transport"]
      BY <1>0, <1>8 DEF Note, RecordShape, IngressChannels
  <2> QED
      BY <1>0, <1>5, <2>1, <2>2 DEF IngressInv, HookShape, MailShape, BusShape, BusInv
<1> QED
    BY <1>1, <1>2, <1>6, <1>7, <1>8 DEF Ingest, AfterRefusal, StoredInboundFromPublic


(* The head of a queue is handed over, and noted.                          *)
LEMMA HandedNotes ==
    ASSUME RecordShape, NEW c \in {"webhook", "transport"}, NEW in, Handed(c, in)
    PROVE  /\ held' = held \cup {in} /\ RecordShape'
           /\ record'[c].accepted = record[c].accepted /\ record'[c].nonces = record[c].nonces
           /\ record'[c].handed = Append(record[c].handed, in.id)
           /\ \A d \in {"webhook", "transport"} \ {c} : record'[d] = record[d]
<1>1. PICK e : e = Append(record[c].handed, in.id)
    OBVIOUS
<1>2. record' = [record EXCEPT ![c].handed = e] /\ held' = held \cup {in}
    BY <1>1 DEF Handed
<1>3. c \in IngressChannels
    BY DEF IngressChannels
<1> QED
    BY <1>1, <1>2, <1>3 DEF RecordShape, IngressChannels

(* The head and the rest of a queue.                                       *)
LEMMA HeadAndRest ==
    ASSUME NEW T, NEW q \in Seq(T), q # <<>>, NEW n, n = Len(q)
    PROVE  /\ n \in Nat /\ n >= 1 /\ Head(q) = q[1] /\ DOMAIN q = 1..n
           /\ DOMAIN Tail(q) = 1..(n - 1) /\ \A i \in 1..(n - 1) : Tail(q)[i] = q[i + 1]
<1>1. n \in Nat /\ n >= 1 /\ Head(q) = q[1] /\ DOMAIN q = 1..n
    BY LenProperties, EmptySeq, HeadTailProperties
<1>2. Tail(q) \in Seq(T) /\ Len(Tail(q)) = n - 1 /\ \A i \in 1..(n - 1) : Tail(q)[i] = q[i + 1]
    BY <1>1, HeadTailProperties
<1> QED
    BY <1>1, <1>2, LenProperties

LEMMA WebhookListenKeeps ==
    ASSUME IngressInv, WebhookListen
    PROVE  IngressInv'
<1>a. HookShape /\ MailShape /\ BusShape /\ RecordShape /\ BusInv
    BY DEF IngressInv
<1>1. PICK q : q = hook.inbox
    OBVIOUS
<1>2. PICK x : x = Head(q)
    OBVIOUS
<1>b. PICK y \in ReadBack(x) :
        /\ q # <<>> /\ hook' = [hook EXCEPT !.inbox = Tail(q)] /\ Handed("webhook", y)
        /\ UNCHANGED <<mail, bus, tmp>>
    BY <1>1, <1>2 DEF WebhookListen, QueueListen, PublicInboundFromStored
<1>4. HookShape' /\ hook'.inbox = Tail(q) /\ hook'.nonces = hook.nonces /\ hook'.freed = hook.freed
    BY <1>a, <1>b DEF HookShape, HookFields
<1>c. RecordShape' /\ record'["transport"] = record["transport"]
    BY <1>a, <1>b, HandedNotes
<1>d. MailShape' /\ BusShape' /\ BusInv'
    BY <1>a, <1>b, <1>c DEF MailShape, BusShape, BusInv
<1>e. CASE hook.freed
    BY <1>4, <1>c, <1>d, <1>e DEF IngressInv
<1>f. SUFFICES ASSUME ~hook.freed PROVE IngressInv'
    BY <1>e
<1>0. RecordShape /\ NonceInv /\ OrderInv /\ AttachmentsOwned
    BY <1>f DEF IngressInv
<1>3. q # <<>> /\ Handed("webhook", x) /\ UNCHANGED tmp
    BY <1>b, <1>f DEF ReadBack
<1>5. /\ held' = held \cup {x} /\ RecordShape'
      /\ record'["webhook"].accepted = record["webhook"].accepted
      /\ record'["webhook"].nonces = record["webhook"].nonces
      /\ record'["webhook"].handed = Append(record["webhook"].handed, x.id)
      /\ record'["transport"] = record["transport"]
    BY <1>0, <1>3, HandedNotes
<1>6. NonceInv'
    BY <1>0, <1>4, <1>5 DEF NonceInv
<1>7. OrderInv'
  <2>1. PICK a, h : a = record["webhook"].accepted /\ h = record["webhook"].handed
      OBVIOUS
  <2>2. InOrder(a, h, q)
      BY <1>0, <1>1, <2>1 DEF OrderInv
  <2>3. InOrder(a, Append(h, x.id), Tail(q))
      BY <1>2, <1>3, <2>2, InOrderHands
  <2> QED
      BY <1>4, <1>5, <2>1, <2>3 DEF OrderInv
<1>8. AttachmentsOwned'
  <2>1. PICK T : q \in Seq(T)
      BY <1>0, <1>1 DEF OrderInv, InOrder
  <2>2. PICK n \in Nat : n = Len(q)
      BY <2>1, LenProperties
  <2>3. PICK t : t = Tail(q)
      OBVIOUS
  <2>4. n >= 1 /\ x = q[1] /\ DOMAIN q = 1..n /\ DOMAIN t = 1..(n - 1) /\ \A i \in 1..(n - 1) : t[i] = q[i + 1]
      BY <1>2, <1>3, <2>1, <2>2, <2>3, HeadAndRest
  <2>5. \A i \in 1..(n - 1) : i + 1 \in 1..n /\ i + 1 # 1
      BY <2>4
  <2>6. 1 \in 1..n
      BY <2>4
  <2>7. \A m \in Owners' : m \in Owners
      BY <1>1, <1>4, <1>5, <2>3, <2>4, <2>5, <2>6 DEF Owners
  <2>8. \A m \in Owners' : m.temporary => m.file \in tmp'
      BY <1>0, <1>3, <2>7 DEF AttachmentsOwned
  <2>9. \A i, j \in 1..n : i # j => ~(q[i].temporary /\ q[j].temporary /\ q[i].file = q[j].file)
      BY <1>0, <1>1, <2>4 DEF AttachmentsOwned
  <2>10. \A m \in held, k \in 1..n : ~(m.temporary /\ q[k].temporary /\ m.file = q[k].file)
      BY <1>0, <1>1, <2>4 DEF AttachmentsOwned
  <2>11. ASSUME NEW i \in DOMAIN t, NEW j \in DOMAIN t, i # j
         PROVE  ~(t[i].temporary /\ t[j].temporary /\ t[i].file = t[j].file)
    <3>1. i + 1 # j + 1
        BY <2>4, <2>11
    <3> QED
        BY <2>4, <2>5, <2>9, <2>11, <3>1
  <2>12. ASSUME NEW m \in held', NEW k \in DOMAIN t
         PROVE  ~(m.temporary /\ t[k].temporary /\ m.file = t[k].file)
    <3>1. k + 1 \in 1..n /\ k + 1 # 1 /\ t[k] = q[k + 1]
        BY <2>4, <2>5, <2>12
    <3>2. CASE m \in held
        BY <2>10, <3>1, <3>2
    <3>3. CASE m = q[1]
        BY <2>6, <2>9, <3>1, <3>3
    <3> QED
        BY <1>5, <2>4, <2>12, <3>2, <3>3
  <2>13. \A m, o \in held' : m # o => ~(m.temporary /\ o.temporary /\ m.file = o.file)
      BY <1>0, <1>5, <2>4, <2>6, <2>10 DEF AttachmentsOwned
  <2> QED
      BY <1>4, <2>3, <2>8, <2>11, <2>12, <2>13 DEF AttachmentsOwned
<1> QED
    BY <1>4, <1>c, <1>d, <1>6, <1>7, <1>8 DEF IngressInv

(* A message that owns no file is taken.                                   *)
LEMMA HeldWithoutFile ==
    ASSUME AttachmentsOwned, NEW in, in.temporary = FALSE, held' = held \cup {in}, hook'.inbox = hook.inbox,
           tmp' = tmp
    PROVE  AttachmentsOwned'
<1>1. \A m \in Owners' : m = in \/ m \in Owners
    BY DEF Owners
<1>2. \A m \in Owners' : m.temporary => m.file \in tmp'
    BY <1>1 DEF AttachmentsOwned
<1> QED
    BY <1>2 DEF AttachmentsOwned

LEMMA TransportListenKeeps ==
    ASSUME IngressInv, TransportListen
    PROVE  IngressInv'
<1>0. HookShape /\ MailShape /\ BusShape /\ RecordShape /\ BusInv
    BY DEF IngressInv
<1>1. PICK q : q = bus.inbox
    OBVIOUS
<1>2. PICK x : x = Head(q)
    OBVIOUS
<1>3. /\ q # <<>> /\ bus' = [bus EXCEPT !.inbox = Tail(q)] /\ Handed("transport", x)
      /\ UNCHANGED <<hook, mail, tmp>>
    BY <1>1, <1>2 DEF TransportListen, QueueListen, PublicInboundFromStored
<1>4. DOMAIN bus' = {"st", "inbox", "sent"} /\ bus'.inbox = Tail(q)
    BY <1>0, <1>3 DEF BusShape
<1>5. /\ held' = held \cup {x} /\ RecordShape'
      /\ record'["transport"].accepted = record["transport"].accepted
      /\ record'["transport"].handed = Append(record["transport"].handed, x.id)
      /\ record'["webhook"] = record["webhook"]
    BY <1>0, <1>3, HandedNotes
<1>6. BusInv'
  <2>1. PICK a, h : a = record["transport"].accepted /\ h = record["transport"].handed
      OBVIOUS
  <2>2. InOrder(a, h, q)
      BY <1>0, <1>1, <2>1 DEF BusInv
  <2>3. InOrder(a, Append(h, x.id), Tail(q))
      BY <1>2, <1>3, <2>2, InOrderHands
  <2> QED
      BY <1>4, <1>5, <2>1, <2>3 DEF BusInv
<1>7. BusShape' /\ x.temporary = FALSE
  <2>1. PICK T : q \in Seq(T)
      BY <1>0, <1>1 DEF BusInv, InOrder
  <2>2. PICK n \in Nat : n = Len(q)
      BY <2>1, LenProperties
  <2>3. PICK t : t = Tail(q)
      OBVIOUS
  <2>4. n >= 1 /\ x = q[1] /\ DOMAIN q = 1..n /\ DOMAIN t = 1..(n - 1) /\ \A i \in 1..(n - 1) : t[i] = q[i + 1]
      BY <1>2, <1>3, <2>1, <2>2, <2>3, HeadAndRest
  <2>5. 1 \in 1..n /\ \A i \in 1..(n - 1) : i + 1 \in 1..n
      BY <2>4
  <2>6. \A k \in 1..n : q[k].temporary = FALSE
      BY <1>0, <1>1, <2>4 DEF BusShape
  <2>7. \A k \in DOMAIN t : t[k].temporary = FALSE
      BY <2>4, <2>5, <2>6
  <2>8. x.temporary = FALSE
      BY <2>4, <2>5, <2>6
  <2> QED
      BY <1>4, <2>3, <2>7, <2>8 DEF BusShape
<1>8. ASSUME AttachmentsOwned PROVE AttachmentsOwned'
    BY <1>3, <1>5, <1>7, <1>8, HeldWithoutFile
<1>9. HookShape' /\ MailShape' /\ hook'.freed = hook.freed /\ (NonceInv => NonceInv') /\ (OrderInv => OrderInv')
    BY <1>0, <1>3, <1>5 DEF HookShape, MailShape, NonceInv, OrderInv
<1> QED
    BY <1>5, <1>6, <1>7, <1>8, <1>9 DEF IngressInv

LEMMA TransportPushKeeps ==
    ASSUME IngressInv, NEW id, TransportPushInbound(id)
    PROVE  IngressInv'
<1>0. HookShape /\ MailShape /\ BusShape /\ RecordShape /\ BusInv
    BY DEF IngressInv
<1>1. PICK x : /\ x.id = id /\ x.temporary = FALSE
               /\ bus' = [bus EXCEPT !.inbox = Append(@, x)] /\ record' = Note("transport", x)
    BY DEF TransportPushInbound, StoredInboundFromPublic
<1>2. UNCHANGED <<hook, mail, tmp, held>>
    BY DEF TransportPushInbound
<1>3. PICK q : q = bus.inbox
    OBVIOUS
<1>4. DOMAIN bus' = {"st", "inbox", "sent"} /\ bus'.inbox = Append(q, x)
    BY <1>0, <1>1, <1>3 DEF BusShape
<1>5. /\ RecordShape' /\ record'["webhook"] = record["webhook"]
      /\ record'["transport"].accepted = Append(record["transport"].accepted, x.id)
      /\ record'["transport"].handed = record["transport"].handed
    BY <1>0, <1>1 DEF Note, RecordShape, IngressChannels
<1>6. BusInv'
  <2>1. PICK a, h : a = record["transport"].accepted /\ h = record["transport"].handed
      OBVIOUS
  <2>2. InOrder(Append(a, x.id), h, Append(q, x))
      BY <1>0, <1>3, <2>1, InOrderAccepts DEF BusInv
  <2> QED
      BY <1>4, <1>5, <2>1, <2>2 DEF BusInv
<1>7. BusShape'
  <2>1. PICK T : q \in Seq(T)
      BY <1>0, <1>3 DEF BusInv, InOrder
  <2>2. PICK n \in Nat : n = Len(q)
      BY <2>1, LenProperties
  <2>3. q \in Seq(T \cup {x}) /\ x \in T \cup {x} /\ Len(q) = n /\ DOMAIN q = 1..n
      BY <2>1, <2>2, SeqMonotonic, LenProperties
  <2>4. PICK p : p = Append(q, x)
      OBVIOUS
  <2>5. DOMAIN p = 1..(n + 1) /\ p[n + 1] = x /\ \A i \in 1..n : p[i] = q[i]
      BY <2>3, <2>4, AppendProperties, LenProperties
  <2>6. \A i \in 1..(n + 1) : i = n + 1 \/ i \in 1..n
      OBVIOUS
  <2> QED
      BY <1>0, <1>1, <1>3, <1>4, <2>3, <2>4, <2>5, <2>6 DEF BusShape
<1>8. ASSUME AttachmentsOwned PROVE AttachmentsOwned'
    BY <1>2, <1>8 DEF AttachmentsOwned, Owners
<1>9. HookShape' /\ MailShape' /\ hook'.freed = hook.freed /\ (NonceInv => NonceInv') /\ (OrderInv => OrderInv')
    BY <1>0, <1>2, <1>5 DEF HookShape, MailShape, NonceInv, OrderInv
<1> QED
    BY <1>5, <1>6, <1>7, <1>8, <1>9 DEF IngressInv

(* A message is released, and its file with it: nobody else owns that.     *)
LEMMA DoneWithKeeps ==
    ASSUME IngressInv, NEW in \in held, DoneWith(in)
    PROVE  IngressInv'
<1>0. HookShape /\ MailShape /\ BusShape /\ RecordShape /\ BusInv
    BY DEF IngressInv
<1>1. UNCHANGED <<hook, mail, bus, record>> /\ held' = held \ {in} /\ tmp' = InboundClear(in, tmp)
    BY DEF DoneWith
<1>2. tmp' = IF in.temporary THEN tmp \ {in.file} ELSE tmp
    BY <1>1 DEF InboundClear
<1>3. ASSUME AttachmentsOwned PROVE AttachmentsOwned'
  <2>1. ASSUME NEW m \in Owners', m.temporary PROVE m.file \in tmp'
    <3>1. m.file \in tmp
        BY <1>1, <1>3, <2>1 DEF Owners, AttachmentsOwned
    <3>2. CASE in.temporary
      <4>1. m.file # in.file
          BY <1>1, <1>3, <2>1, <3>2 DEF Owners, AttachmentsOwned
      <4> QED
          BY <1>2, <3>1, <4>1
    <3>3. CASE ~in.temporary
        BY <1>2, <3>1, <3>3
    <3> QED
        BY <3>2, <3>3
  <2> QED
      BY <1>1, <1>3, <2>1 DEF AttachmentsOwned
<1>4. HookShape' /\ MailShape' /\ BusShape' /\ RecordShape' /\ BusInv' /\ hook'.freed = hook.freed
    BY <1>0, <1>1 DEF HookShape, MailShape, BusShape, RecordShape, BusInv
<1>5. (NonceInv => NonceInv') /\ (OrderInv => OrderInv')
    BY <1>1 DEF NonceInv, OrderInv
<1> QED
    BY <1>3, <1>4, <1>5 DEF IngressInv

(* A message of the mailbox goes through the channel's empty queue.        *)
LEMMA MailListenKeeps ==
    ASSUME IngressInv, MailListen
    PROVE  IngressInv'
<1>0. HookShape /\ MailShape /\ BusShape /\ RecordShape /\ BusInv
    BY DEF IngressInv
<1>1. UNCHANGED <<hook, mail, bus, tmp>>
    BY DEF MailListen
<1>2. CASE UNCHANGED <<held, record>>
  <2>1. Quiet
      BY <1>0, <1>1, <1>2 DEF Quiet, HookShape, MailShape, BusShape
  <2> QED
      BY <2>1, QuietStep
<1>3. CASE \E x : /\ x.temporary = FALSE /\ held' = held \cup {Head(Append(mail.ch.inbox, x))}
                  /\ record' = [Note("mail", x) EXCEPT !["mail"].handed = Append(@, x.id)]
  <2>1. PICK x : /\ x.temporary = FALSE /\ held' = held \cup {Head(Append(mail.ch.inbox, x))}
                 /\ record' = [Note("mail", x) EXCEPT !["mail"].handed = Append(@, x.id)]
      BY <1>3
  <2>2. Head(Append(<<>>, x)) = x
      OBVIOUS
  <2>3. held' = held \cup {x}
      BY <1>0, <2>1, <2>2 DEF MailShape
  <2>4. RecordShape' /\ record'["webhook"] = record["webhook"] /\ record'["transport"] = record["transport"]
      BY <1>0, <2>1 DEF Note, RecordShape, IngressChannels
  <2>5. ASSUME AttachmentsOwned PROVE AttachmentsOwned'
      BY <1>1, <2>1, <2>3, <2>5, HeldWithoutFile
  <2>6. HookShape' /\ MailShape' /\ BusShape' /\ BusInv' /\ hook'.freed = hook.freed
      BY <1>0, <1>1, <2>4 DEF HookShape, MailShape, BusShape, BusInv
  <2>7. (NonceInv => NonceInv') /\ (OrderInv => OrderInv')
      BY <1>1, <2>4 DEF NonceInv, OrderInv
  <2> QED
      BY <2>4, <2>5, <2>6, <2>7 DEF IngressInv
<1> QED
    BY <1>2, <1>3 DEF MailListen, QueueListen, PublicInboundFromStored, StoredInboundFromPublic

(* Empty queues and an empty record.                                       *)
LEMMA Empties ==
    /\ <<>> \in Seq({}) /\ DOMAIN <<>> = {}
    /\ Remembered(<<>>, <<>>) /\ InOrder(<<>>, <<>>, <<>>)
<1>1. <<>> \in Seq({}) /\ Len(<<>>) = 0 /\ 1..0 = {} /\ DOMAIN <<>> = {}
    BY EmptySeq
<1>2. Remembered(<<>>, <<>>)
    BY <1>1, IngressAssumption DEF Remembered, Spaced
<1>3. InOrder(<<>>, <<>>, <<>>)
    BY <1>1 DEF InOrder
<1> QED
    BY <1>1, <1>2, <1>3

LEMMA CreatedShapes ==
    /\ \A o : /\ DOMAIN WebhookNew(o) = HookFields
              /\ WebhookNew(o).inbox = <<>> /\ WebhookNew(o).nonces = <<>>
    /\ \A o : DOMAIN MailNew(o) = MailFields /\ MailNew(o).inbox = <<>>
    /\ \A o : DOMAIN PlatformChannelNew(o) = {"st", "inbox", "sent"} /\ PlatformChannelNew(o).inbox = <<>>
<1>1. \A o : /\ DOMAIN WebhookNew(o) = HookFields
             /\ WebhookNew(o).inbox = <<>> /\ WebhookNew(o).nonces = <<>>
    BY DEF WebhookNew, HookFields
<1>2. \A o : DOMAIN MailNew(o) = MailFields /\ MailNew(o).inbox = <<>>
    BY DEF MailNew, MailFields
<1>3. \A o : \E s : PlatformChannelNew(o) = [st |-> s, inbox |-> <<>>, sent |-> <<>>]
  <2>1. \A o : TransportNew(o) \in {[st |-> "invalid", inbox |-> <<>>, sent |-> <<>>],
                                    [st |-> "ok", inbox |-> <<>>, sent |-> <<>>]}
      BY DEF TransportNew
  <2>2. \A o : \/ PlatformChannelNew(o) = [st |-> "device_id_required", inbox |-> <<>>, sent |-> <<>>]
               \/ PlatformChannelNew(o) = TransportNew(o)
      BY DEF PlatformChannelNew
  <2> QED
      BY <2>1, <2>2
<1>4. \A o : DOMAIN PlatformChannelNew(o) = {"st", "inbox", "sent"} /\ PlatformChannelNew(o).inbox = <<>>
    BY <1>3
<1> QED
    BY <1>1, <1>2, <1>4

(* The process ends, by a signal or in order, and starts again.            *)
LEMMA RestartKeeps ==
    ASSUME IngressInv, IngressRestart \/ Shutdown
    PROVE  IngressInv'
<1>1. /\ hook' = WebhookNew(WebhookOptions) /\ mail' = [mail EXCEPT !.ch = MailNew(MailOptions)]
      /\ bus' = [bus EXCEPT !.inbox = <<>>, !.sent = <<>>] /\ held' = {}
      /\ record' = [c \in IngressChannels |-> [accepted |-> <<>>, handed |-> <<>>, nonces |-> <<>>]]
    BY DEF IngressRestart, Shutdown
<1>2. DOMAIN hook' = HookFields /\ hook'.inbox = <<>> /\ hook'.nonces = <<>>
    BY <1>1, CreatedShapes
<1>3. MailShape'
    BY <1>1, CreatedShapes DEF IngressInv, MailShape
<1>4. DOMAIN bus' = {"st", "inbox", "sent"} /\ bus'.inbox = <<>>
    BY <1>1 DEF IngressInv, BusShape
<1>5. RecordShape' /\ \A c \in IngressChannels : record'[c] = [accepted |-> <<>>, handed |-> <<>>, nonces |-> <<>>]
    BY <1>1 DEF RecordShape
<1>6. NonceInv' /\ OrderInv' /\ BusInv'
    BY <1>2, <1>4, <1>5, Empties DEF NonceInv, OrderInv, BusInv, IngressChannels
<1>7. AttachmentsOwned'
    BY <1>1, <1>2, Empties DEF AttachmentsOwned, Owners
<1> QED
    BY <1>2, <1>3, <1>4, <1>5, <1>6, <1>7, Empties DEF IngressInv, HookShape, BusShape

LEMMA IngressStep ==
    ASSUME IngressInv, [IngressNext]_ingressVars
    PROVE  IngressInv'
BY IngestKeeps, WebhookListenKeeps, TransportPushKeeps, TransportListenKeeps, ElsewhereKeeps, DoneWithKeeps,
   MailListenKeeps, RestartKeeps DEF IngressNext

(* IngressSound for any requests, options, limits and clock: a nonce is    *)
(* let in again only when more others than are remembered came between, a  *)
(* message that owns a temporary file keeps it until it is cleared, and    *)
(* every channel hands over what it accepted in order, in every life of    *)
(* the process in which no queued message was freed                        *)
(* (sc_channel_webhook_ingest, queue_listen, sc_channel_inbound_clear).    *)
THEOREM IngressSoundHolds == IngressSpec => []IngressSound
<1>1. ASSUME IngressInit PROVE IngressInv
  <2>1. DOMAIN hook = HookFields /\ hook.inbox = <<>> /\ hook.nonces = <<>>
      BY <1>1, CreatedShapes DEF IngressInit
  <2>2. mail = [ch |-> MailNew(MailOptions), box |-> <<>>, delivered |-> <<>>]
      BY <1>1 DEF IngressInit
  <2>3. MailShape
      BY <2>2, CreatedShapes DEF MailShape
  <2>4. DOMAIN bus = {"st", "inbox", "sent"} /\ bus.inbox = <<>>
      BY <1>1, CreatedShapes DEF IngressInit
  <2>5. held = {} /\ record = [c \in IngressChannels |-> [accepted |-> <<>>, handed |-> <<>>, nonces |-> <<>>]]
      BY <1>1 DEF IngressInit
  <2>6. RecordShape /\ \A c \in IngressChannels : record[c] = [accepted |-> <<>>, handed |-> <<>>, nonces |-> <<>>]
      BY <2>5 DEF RecordShape
  <2>7. NonceInv /\ OrderInv /\ BusInv
      BY <2>1, <2>4, <2>6, Empties DEF NonceInv, OrderInv, BusInv, IngressChannels
  <2>8. AttachmentsOwned
      BY <2>1, <2>5, Empties DEF AttachmentsOwned, Owners
  <2> QED
      BY <2>1, <2>3, <2>4, <2>6, <2>7, <2>8, Empties DEF IngressInv, HookShape, BusShape
<1>2. IngressInv /\ [IngressNext]_ingressVars => IngressInv'
    BY IngressStep
<1>3. ASSUME IngressInv PROVE IngressSound
  <2>0. SUFFICES ASSUME ~hook.freed PROVE NonceOnceInWindow /\ AttachmentsOwned /\ AcceptedInOrder
      BY DEF IngressSound
  <2>1. NonceOnceInWindow
      BY <1>3, <2>0 DEF IngressInv, NonceInv, Remembered, Spaced, NonceOnceInWindow
  <2>2. AcceptedInOrder
    <3>1. PICK a, h, q, b, g, p :
            /\ a = record["webhook"].accepted /\ h = record["webhook"].handed /\ q = hook.inbox
            /\ b = record["transport"].accepted /\ g = record["transport"].handed /\ p = bus.inbox
        OBVIOUS
    <3>2. InOrder(a, h, q) /\ InOrder(b, g, p)
        BY <1>3, <2>0, <3>1 DEF IngressInv, OrderInv, BusInv
    <3>3. a = h \o [k \in DOMAIN q |-> q[k].id] /\ b = g \o [k \in DOMAIN p |-> p[k].id]
        BY <3>2, InOrderConcat
    <3> QED
        BY <3>1, <3>3 DEF AcceptedInOrder
  <2> QED
      BY <1>3, <2>0, <2>1, <2>2 DEF IngressInv
<1> QED
    BY <1>1, <1>2, <1>3, PTL DEF IngressSpec

-----------------------------------------------------------------------------
(* Sequences whose elements are of no particular type.                     *)
IsSeq(s) == \E S : s \in Seq(S)

LEMMA SeqDomain ==
    ASSUME NEW s, IsSeq(s)
    PROVE  Len(s) \in Nat /\ DOMAIN s = 1..Len(s)
BY LenProperties DEF IsSeq

LEMMA SeqSet ==
    ASSUME NEW s, IsSeq(s), NEW i \in DOMAIN s, NEW x, NEW t, t = [s EXCEPT ![i] = x]
    PROVE  /\ IsSeq(t) /\ DOMAIN t = DOMAIN s
           /\ \A j \in DOMAIN s : t[j] = IF j = i THEN x ELSE s[j]
<1>1. PICK S : s \in Seq(S)
    BY DEF IsSeq
<1>2. s \in Seq(S \cup {x}) /\ x \in S \cup {x} /\ i \in 1..Len(s)
    BY <1>1, SeqMonotonic, SeqDomain
<1>3. t \in Seq(S \cup {x})
    BY <1>2, ExceptSeq
<1> QED
    BY <1>3 DEF IsSeq

Added(s, x, t, n) == t = Append(s, x) /\ n = Len(s) + 1

Longer(s, x, t, n) ==
    /\ IsSeq(t) /\ DOMAIN t = DOMAIN s \cup {n} /\ n \notin DOMAIN s /\ n \in Nat \ {0}
    /\ \A j \in DOMAIN s : t[j] = s[j]
    /\ t[n] = x

LEMMA SeqAdd ==
    ASSUME NEW s, IsSeq(s), NEW x, NEW t, NEW n, Added(s, x, t, n)
    PROVE  Longer(s, x, t, n)
<1>1. PICK S : s \in Seq(S)
    BY DEF IsSeq
<1>2. PICK l \in Nat : l = Len(s) /\ DOMAIN s = 1..l
    BY SeqDomain
<1>3. s \in Seq(S \cup {x}) /\ x \in S \cup {x}
    BY <1>1, SeqMonotonic
<1>4. t \in Seq(S \cup {x}) /\ Len(t) = l + 1 /\ (\A i \in 1..l : t[i] = s[i]) /\ t[l + 1] = x
    BY <1>2, <1>3, AppendProperties DEF Added
<1>5. DOMAIN t = 1..(l + 1)
    BY <1>4, LenProperties
<1> QED
    BY <1>2, <1>4, <1>5 DEF IsSeq, Added, Longer

LEMMA SeqRest ==
    ASSUME NEW s, IsSeq(s), s # <<>>
    PROVE  /\ IsSeq(Tail(s)) /\ 1 \in DOMAIN s /\ Head(s) = s[1]
           /\ \A k \in DOMAIN Tail(s) : k + 1 \in DOMAIN s /\ Tail(s)[k] = s[k + 1]
<1>1. PICK S : s \in Seq(S)
    BY DEF IsSeq
<1>2. PICK l \in Nat : l = Len(s) /\ DOMAIN s = 1..l
    BY SeqDomain
<1>3. l # 0
    BY <1>1, <1>2, EmptySeq
<1>4. PICK t : t = Tail(s)
    OBVIOUS
<1>5. t \in Seq(S) /\ Len(t) = l - 1 /\ \A i \in 1..Len(t) : t[i] = s[i + 1]
    BY <1>1, <1>2, <1>4, HeadTailProperties
<1>6. DOMAIN t = 1..(l - 1)
    BY <1>5, LenProperties
<1>7. Head(s) = s[1]
    BY <1>1 
<1> QED
    BY <1>2, <1>3, <1>4, <1>5, <1>6, <1>7 DEF IsSeq

LEMMA EmptyIsSeq == IsSeq(<<>>) /\ DOMAIN <<>> = {}
BY EmptySeq DEF IsSeq

-----------------------------------------------------------------------------
(* Selectors.                                                              *)
(* The n-th element of a listing is the one its selector finds, if it      *)
(* matches that element and none before it.                                *)
LEMMA ListedIsFound ==
    ASSUME NEW u, NEW n \in DOMAIN Listing(u), NEW m, m = ControlsOf(u)[n],
           Matches(ElementsOf(u)[m], SelectorOf(ElementsOf(u)[m])),
           \A i \in 1..(m - 1) : ~Matches(ElementsOf(u)[i], SelectorOf(ElementsOf(u)[m]))
    PROVE  QuerySelector(ElementsOf(u), Listing(u)[n]) = m
<1>1. PICK es : es = ElementsOf(u)
    OBVIOUS
<1>2. PICK l \in Nat : DOMAIN es = 1..l /\ m \in 1..l
  <2>0. n \in DOMAIN ControlsOf(u)
      BY DEF Listing
  <2>1. CASE u \in DOMAIN Sites
    <3>1. PICK s, cs : s = Sites[u].elements /\ cs = Sites[u].controls
        OBVIOUS
    <3>2. Len(s) \in Nat /\ DOMAIN s = 1..Len(s) /\ \A k \in DOMAIN cs : cs[k] \in DOMAIN s
        BY <2>1, <3>1, BrowserAssumption
    <3>3. es = s /\ ControlsOf(u) = cs
        BY <1>1, <2>1, <3>1 DEF ElementsOf, ControlsOf
    <3> QED
        BY <2>0, <3>2, <3>3
  <2>2. CASE u \notin DOMAIN Sites
    <3>1. ControlsOf(u) = <<>>
        BY <2>2 DEF ControlsOf
    <3> QED
        BY <2>0, <3>1, EmptyIsSeq
  <2> QED
      BY <2>1, <2>2
<1>3. Listing(u)[n] = SelectorOf(es[m])
    BY <1>1 DEF Listing
<1>4. PICK found : found = {i \in DOMAIN es : Matches(es[i], SelectorOf(es[m]))}
    OBVIOUS
<1>5. m \in found /\ found \subseteq Nat
    BY <1>1, <1>2, <1>4
<1>6. Min(found) \in found /\ Min(found) <= m
    BY <1>5, SmallestOf
<1>7. \A i \in found : ~(i \in 1..(m - 1))
    BY <1>1, <1>4
<1>8. Min(found) = m
    BY <1>2, <1>3, <1>4, <1>6, <1>7
<1> QED
    BY <1>1, <1>3, <1>4, <1>5, <1>8 DEF QuerySelector

-----------------------------------------------------------------------------
(* The invariant.  A session knows the wire it reads from, and no other    *)
(* session does; the numbers on that wire are below the next one; and what *)
(* lies on it under the number of the request in progress was asked by     *)
(* that request.                                                           *)
TabFields == {"name", "active", "client", "target", "cdp", "refs", "page"}
WireFields == {"up", "in", "owed"}
ActFields == {"pc", "call", "tool", "slot", "stage", "id", "tries", "selector", "st", "from"}
BudgetType == [calls : Nat, events : Nat, faults : Nat, polls : Nat, moves : Nat]
Opening == {"connect", "create", "attach"}
Reading == {"eval", "markdown", "script", "screenshot", "plain"}

GoodTab(tab) ==
    /\ DOMAIN tab = TabFields
    /\ tab.cdp.wire # 0 => tab.cdp.target = tab.target
    /\ tab.refs = <<>> \/ tab.refs = Listing(tab.page)

TabsInv ==
    /\ DOMAIN tabs = BrowserToolNames /\ DOMAIN nextId = BrowserToolNames
    /\ \A t \in BrowserToolNames :
          /\ IsSeq(tabs[t]) /\ nextId[t] \in Nat \ {0}
          /\ \A i \in DOMAIN tabs[t] :
                GoodTab(tabs[t][i]) /\ (tabs[t][i].client = 0 \/ tabs[t][i].client \in DOMAIN wires)

WiresInv ==
    /\ IsSeq(wires)
    /\ \A w \in DOMAIN wires : /\ w # 0 /\ DOMAIN wires[w] = WireFields /\ IsSeq(wires[w].in)
                               /\ \A r \in wires[w].owed : r.id \in Nat
                               /\ \A k \in DOMAIN wires[w].in : wires[w].in[k].id \in Nat

OwnWire ==
    \A t, u \in BrowserToolNames : \A i \in DOMAIN tabs[t], j \in DOMAIN tabs[u] :
        tabs[t][i].client = tabs[u][j].client /\ tabs[t][i].client # 0 => t = u /\ i = j

Numbered ==
    \A t \in BrowserToolNames : \A i \in DOMAIN tabs[t] :
        tabs[t][i].client # 0 =>
            /\ \A r \in wires[tabs[t][i].client].owed : r.id < nextId[t]
            /\ \A k \in DOMAIN wires[tabs[t][i].client].in : wires[tabs[t][i].client].in[k].id < nextId[t]

Asked(a, tab, r) ==
    r.id = a.id => /\ r.stage = a.stage /\ r.target = tab.target /\ r.selector = a.selector
                   /\ r.cdp.wire # 0 => r.cdp = tab.cdp

Fitting(a, tab, v) ==
    /\ a.stage = "attach" => v.cdp.target = tab.target
    /\ a.stage \in Reading => v.seen.target = tab.target /\ v.seen.call = a.from
    /\ a.stage = "script" => v.refs = Listing(v.seen.url)
    /\ a.stage = "click" => v.hit = QuerySelector(ElementsOf(v.seen.url), a.selector)

Answered(a, tab, m) == m.id = a.id /\ m.kind = "result" => Fitting(a, tab, m.value)

ActInv ==
    /\ DOMAIN act = ActFields /\ allowed \in BudgetType
    /\ act.pc # "idle" =>
         /\ act.tool \in BrowserToolNames /\ act.slot \in DOMAIN tabs[act.tool] /\ act.from = allowed.calls
         /\ act.stage \in Opening => Tab.cdp.wire = 0
         /\ act.stage = "click" => act.selector = ResolveTarget(Tab, act.call.target) /\ act.selector # <<>>
    /\ act.pc = "receive" =>
         /\ Tab.client # 0 /\ act.id = nextId[act.tool] - 1 /\ act.id # 0
         /\ \A r \in wires[Tab.client].owed : Asked(act, Tab, r)
         /\ \A k \in DOMAIN wires[Tab.client].in : Answered(act, Tab, wires[Tab.client].in[k])

BrowserInv == TabsInv /\ WiresInv /\ OwnWire /\ Numbered /\ ActInv

-----------------------------------------------------------------------------
(* Steps that take from the wires and add nothing.                         *)
Sub(ws, vs) ==
    /\ IsSeq(ws) /\ DOMAIN ws = DOMAIN vs
    /\ \A w \in DOMAIN vs :
          /\ DOMAIN ws[w] = WireFields /\ IsSeq(ws[w].in)
          /\ ws[w].owed \subseteq vs[w].owed
          /\ \A k \in DOMAIN ws[w].in : \E l \in DOMAIN vs[w].in : ws[w].in[k] = vs[w].in[l]

LEMMA SubSame ==
    ASSUME WiresInv
    PROVE  Sub(wires, wires)
BY DEF WiresInv, Sub

(* Hanging up empties a wire.                                              *)
LEMMA SubHangUp ==
    ASSUME NEW ws, NEW vs, Sub(ws, vs), NEW c, c = 0 \/ c \in DOMAIN vs
    PROVE  Sub(HangUp(ws, c), vs)
<1>1. CASE c = 0
    BY <1>1 DEF HangUp
<1>2. CASE c # 0
  <2>1. PICK x : x = [up |-> FALSE, in |-> <<>>, owed |-> {}]
      OBVIOUS
  <2>2. DOMAIN x = WireFields /\ x.in = <<>> /\ x.owed = {}
      BY <2>1 DEF WireFields
  <2>3. PICK us : us = [ws EXCEPT ![c] = x]
      OBVIOUS
  <2>4. c \in DOMAIN ws /\ DOMAIN ws = DOMAIN vs /\ IsSeq(ws)
      BY <1>2 DEF Sub
  <2>5. IsSeq(us) /\ DOMAIN us = DOMAIN ws /\ \A j \in DOMAIN ws : us[j] = IF j = c THEN x ELSE ws[j]
      BY <2>3, <2>4, SeqSet
  <2>6. Sub(us, vs)
      BY <2>2, <2>4, <2>5, EmptyIsSeq DEF Sub
  <2>7. HangUp(ws, c) = us
      BY <1>2, <2>1, <2>3 DEF HangUp
  <2> QED
      BY <2>6, <2>7
<1> QED
    BY <1>1, <1>2

(* The head of a wire is taken.                                            *)
LEMMA SubTaken ==
    ASSUME WiresInv, NEW c \in DOMAIN wires, wires[c].in # <<>>
    PROVE  Sub([wires EXCEPT ![c].in = Tail(@)], wires)
<1>1. PICK x : x = [wires[c] EXCEPT !.in = Tail(wires[c].in)]
    OBVIOUS
<1>2. PICK t : t = Tail(wires[c].in)
    OBVIOUS
<1>3. DOMAIN x = WireFields /\ x.in = t /\ x.owed = wires[c].owed
    BY <1>1, <1>2 DEF WiresInv, WireFields
<1>4. IsSeq(t) /\ \A k \in DOMAIN t : k + 1 \in DOMAIN wires[c].in /\ t[k] = wires[c].in[k + 1]
    BY <1>2, SeqRest DEF WiresInv
<1>5. PICK us : us = [wires EXCEPT ![c] = x]
    OBVIOUS
<1>6. IsSeq(us) /\ DOMAIN us = DOMAIN wires /\ \A j \in DOMAIN wires : us[j] = IF j = c THEN x ELSE wires[j]
    BY <1>5, SeqSet DEF WiresInv
<1>7. Sub(us, wires)
    BY <1>3, <1>4, <1>6 DEF Sub, WiresInv
<1>8. [wires EXCEPT ![c].in = Tail(@)] = us
    BY <1>1, <1>5
<1> QED
    BY <1>7, <1>8

(* One session is set to x.                                                *)
TabSetTo(x) ==
    /\ DOMAIN tabs' = BrowserToolNames
    /\ \A u \in BrowserToolNames :
          /\ IsSeq(tabs'[u]) /\ DOMAIN tabs'[u] = DOMAIN tabs[u]
          /\ \A j \in DOMAIN tabs[u] : tabs'[u][j] = IF u = act.tool /\ j = act.slot THEN x ELSE tabs[u][j]

LEMMA SetTabSets ==
    ASSUME TabsInv, act.tool \in BrowserToolNames, act.slot \in DOMAIN tabs[act.tool], NEW x, SetTab(x)
    PROVE  TabSetTo(x)
<1>1. PICK t, i : t = act.tool /\ i = act.slot
    OBVIOUS
<1>2. PICK s : s = [tabs[t] EXCEPT ![i] = x]
    OBVIOUS
<1>3. IsSeq(s) /\ DOMAIN s = DOMAIN tabs[t] /\ \A j \in DOMAIN tabs[t] : s[j] = IF j = i THEN x ELSE tabs[t][j]
    BY <1>1, <1>2, SeqSet DEF TabsInv
<1>4. tabs' = [tabs EXCEPT ![t] = s]
    BY <1>1, <1>2 DEF SetTab
<1>5. DOMAIN tabs' = BrowserToolNames /\ \A u \in BrowserToolNames : tabs'[u] = IF u = t THEN s ELSE tabs[u]
    BY <1>1, <1>4 DEF TabsInv
<1> QED
    BY <1>1, <1>3, <1>5 DEF TabSetTo, TabsInv

LEMMA TabKept ==
    ASSUME TabsInv, UNCHANGED tabs
    PROVE  TabSetTo(Tab)
BY DEF TabsInv, TabSetTo, Tab

(* A step of a call that takes from the wires, changes its session at most *)
(* and leaves no request open.                                             *)
LEMMA Settles ==
    ASSUME BrowserInv, act.pc # "idle", Sub(wires', wires),
           DOMAIN nextId' = BrowserToolNames,
           \A t \in BrowserToolNames : nextId'[t] \in Nat \ {0} /\ nextId'[t] >= nextId[t],
           allowed' \in BudgetType, allowed'.calls = allowed.calls,
           NEW x, GoodTab(x), x.client \in {0, Tab.client}, TabSetTo(x),
           DOMAIN act' = ActFields, act'.pc \in {"idle", "send"},
           act'.pc = "send" =>
               /\ act'.tool = act.tool /\ act'.slot = act.slot /\ act'.from = act.from /\ act'.stage # "click"
               /\ act'.stage \in Opening => x.cdp.wire = 0
    PROVE  BrowserInv'
<1>0. TabsInv /\ WiresInv /\ OwnWire /\ Numbered /\ ActInv
    BY DEF BrowserInv
<1>1. act.tool \in BrowserToolNames /\ act.slot \in DOMAIN tabs[act.tool] /\ Tab = tabs[act.tool][act.slot]
    BY <1>0 DEF ActInv, Tab
<1>2. \A u \in BrowserToolNames : \A j \in DOMAIN tabs[u] :
          GoodTab(tabs'[u][j]) /\ tabs'[u][j].client \in {0, tabs[u][j].client}
    BY <1>0, <1>1 DEF TabSetTo, TabsInv
<1>3. DOMAIN wires' = DOMAIN wires /\ DOMAIN tabs' = BrowserToolNames
      /\ \A u \in BrowserToolNames : IsSeq(tabs'[u]) /\ DOMAIN tabs'[u] = DOMAIN tabs[u]
    BY DEF Sub, TabSetTo
<1>4. TabsInv'
    BY <1>0, <1>2, <1>3 DEF TabsInv
<1>5. WiresInv'
    BY <1>0 DEF WiresInv, Sub
<1>6. OwnWire'
    BY <1>0, <1>2, <1>3 DEF OwnWire
<1>7. Numbered'
  <2>1. SUFFICES ASSUME NEW t \in BrowserToolNames, NEW i \in DOMAIN tabs[t], NEW c, c = tabs'[t][i].client, c # 0
                 PROVE  /\ \A r \in wires'[c].owed : r.id < nextId'[t]
                        /\ \A k \in DOMAIN wires'[c].in : wires'[c].in[k].id < nextId'[t]
      BY <1>3 DEF Numbered
  <2>2. c = tabs[t][i].client /\ c \in DOMAIN wires
      BY <1>0, <1>2, <2>1 DEF TabsInv
  <2>3. /\ \A r \in wires[c].owed : r.id < nextId[t] /\ r.id \in Nat
        /\ \A k \in DOMAIN wires[c].in : wires[c].in[k].id < nextId[t] /\ wires[c].in[k].id \in Nat
      BY <1>0, <2>1, <2>2 DEF Numbered, WiresInv
  <2>4. /\ wires'[c].owed \subseteq wires[c].owed
        /\ \A k \in DOMAIN wires'[c].in : \E l \in DOMAIN wires[c].in : wires'[c].in[k] = wires[c].in[l]
      BY <2>2 DEF Sub
  <2>5. nextId[t] \in Nat /\ nextId'[t] \in Nat /\ nextId'[t] >= nextId[t]
      BY <1>0 DEF TabsInv
  <2> QED
      BY <2>3, <2>4, <2>5
<1>8. ActInv'
  <2>1. CASE act'.pc = "idle"
      BY <2>1 DEF ActInv
  <2>2. CASE act'.pc = "send"
    <3>1. Tab' = x
        BY <1>1, <2>2 DEF Tab, TabSetTo
    <3>2. act'.from = allowed'.calls
        BY <1>0, <2>2 DEF ActInv
    <3> QED
        BY <1>1, <1>3, <2>2, <3>1, <3>2 DEF ActInv
  <2> QED
      BY <2>1, <2>2
<1> QED
    BY <1>4, <1>5, <1>6, <1>7, <1>8 DEF BrowserInv

LEMMA NoTabGood == GoodTab(NoTab) /\ NoTab.client = 0 /\ NoTab.cdp.wire = 0 /\ NoTab.refs = <<>>
BY DEF NoTab, GoodTab, TabFields

LEMMA SpendKeeps ==
    ASSUME allowed \in BudgetType, NEW f \in {"events", "faults", "polls", "moves"}, Spend(f)
    PROVE  allowed' \in BudgetType /\ allowed'.calls = allowed.calls
<1>1. PICK b \in BudgetType : b = allowed
    OBVIOUS
<1>2. b[f] > 0 /\ allowed' = [b EXCEPT ![f] = b[f] - 1]
    BY <1>1 DEF Spend
<1>3. CASE f = "events"
    BY <1>1, <1>2, <1>3 DEF BudgetType
<1>4. CASE f = "faults"
    BY <1>1, <1>2, <1>4 DEF BudgetType
<1>5. CASE f = "polls"
    BY <1>1, <1>2, <1>5 DEF BudgetType
<1>6. CASE f = "moves"
    BY <1>1, <1>2, <1>6 DEF BudgetType
<1> QED
    BY <1>3, <1>4, <1>5, <1>6

(* The session of the call in progress.                                    *)
LEMMA TabOfCall ==
    ASSUME BrowserInv, act.pc # "idle"
    PROVE  /\ act.tool \in BrowserToolNames /\ act.slot \in DOMAIN tabs[act.tool] /\ Tab = tabs[act.tool][act.slot]
           /\ GoodTab(Tab) /\ (Tab.client = 0 \/ Tab.client \in DOMAIN wires)
           /\ DOMAIN act = ActFields /\ allowed \in BudgetType /\ act.from = allowed.calls
<1>1. TabsInv /\ ActInv
    BY DEF BrowserInv
<1>2. act.tool \in BrowserToolNames /\ act.slot \in DOMAIN tabs[act.tool] /\ Tab = tabs[act.tool][act.slot]
    BY <1>1 DEF ActInv, Tab
<1>3. GoodTab(Tab) /\ (Tab.client = 0 \/ Tab.client \in DOMAIN wires)
    BY <1>1, <1>2 DEF TabsInv
<1> QED
    BY <1>1, <1>2, <1>3 DEF ActInv

LEMMA NumbersKept ==
    ASSUME BrowserInv, UNCHANGED nextId
    PROVE  /\ DOMAIN nextId' = BrowserToolNames
           /\ \A t \in BrowserToolNames : nextId'[t] \in Nat \ {0} /\ nextId'[t] >= nextId[t]
BY DEF BrowserInv, TabsInv

LEMMA CloseSettles ==
    ASSUME BrowserInv, act.pc # "idle", NEW st, NEW ws, Sub(ws, wires), CloseSession(st, ws), UNCHANGED allowed,
           DOMAIN nextId' = BrowserToolNames,
           \A t \in BrowserToolNames : nextId'[t] \in Nat \ {0} /\ nextId'[t] >= nextId[t]
    PROVE  BrowserInv'
<1>1. /\ act.tool \in BrowserToolNames /\ act.slot \in DOMAIN tabs[act.tool] /\ DOMAIN act = ActFields
      /\ allowed \in BudgetType /\ (Tab.client = 0 \/ Tab.client \in DOMAIN wires)
    BY TabOfCall
<1>2. PICK c : c = Tab.client
    OBVIOUS
<1>3. Sub(HangUp(ws, c), wires)
    BY <1>1, <1>2, SubHangUp
<1>4. Sub(wires', wires)
    BY <1>2, <1>3 DEF CloseSession
<1>5. TabSetTo(NoTab)
  <2>1. SetTab(NoTab) /\ TabsInv
      BY DEF CloseSession, SessionClear, BrowserInv
  <2> QED
      BY <1>1, <2>1, SetTabSets
<1>6. DOMAIN act' = ActFields /\ act'.pc = "idle"
    BY <1>1 DEF CloseSession, Finish, ActFields
<1>7. allowed' \in BudgetType /\ allowed'.calls = allowed.calls
    BY <1>1
<1> QED
    BY <1>4, <1>5, <1>6, <1>7, NoTabGood, Settles

LEMMA FailSettles ==
    ASSUME BrowserInv, act.pc # "idle", NEW st, NEW ws, Sub(ws, wires), FailStage(st, ws), UNCHANGED allowed,
           DOMAIN nextId' = BrowserToolNames,
           \A t \in BrowserToolNames : nextId'[t] \in Nat \ {0} /\ nextId'[t] >= nextId[t]
    PROVE  BrowserInv'
<1>1. CASE act.stage = "close"
    BY <1>1, CloseSettles DEF FailStage
<1>2. CASE act.stage # "close"
  <2>1. /\ wires' = ws /\ UNCHANGED tabs
        /\ \/ GoTo("script") \/ GoTo("plain") \/ Finish(st) 
           \/ act' = [act EXCEPT !.pc = "send", !.stage = "close", !.st = st]
      BY <1>2 DEF FailStage
  <2>2. DOMAIN act = ActFields /\ allowed \in BudgetType /\ GoodTab(Tab)
      BY TabOfCall
  <2>3. PICK x : x = Tab
      OBVIOUS
  <2>4. TabSetTo(x)
      BY <2>1, <2>3, TabKept DEF BrowserInv
  <2>5. DOMAIN act' = ActFields /\ (act'.pc = "idle" \/ 
           (act'.pc = "send" /\ act'.tool = act.tool /\ act'.slot = act.slot /\ act'.from = act.from
                /\ act'.stage \in {"script", "plain", "close"}))
      BY <2>1, <2>2 DEF GoTo, Finish, ActFields
  <2>6. /\ act'.pc \in {"idle", "send"}
        /\ act'.pc = "send" =>
               /\ act'.tool = act.tool /\ act'.slot = act.slot /\ act'.from = act.from /\ act'.stage # "click"
               /\ act'.stage \in Opening => x.cdp.wire = 0
      BY <2>5 DEF Opening
  <2>7. Sub(wires', wires) /\ allowed' \in BudgetType /\ allowed'.calls = allowed.calls
      BY <2>1, <2>2
  <2> QED
      BY <2>2, <2>3, <2>4, <2>5, <2>6, <2>7, Settles
<1> QED
    BY <1>1, <1>2

(* A call in progress returns, or goes on to the next request.             *)
Onward(x) ==
    /\ DOMAIN act' = ActFields /\ act'.pc \in {"idle", "send"}
    /\ act'.pc = "send" =>
           /\ act'.tool = act.tool /\ act'.slot = act.slot /\ act'.from = act.from /\ act'.stage # "click"
           /\ act'.stage \in Opening => x.cdp.wire = 0

LEMMA FinishOnward ==
    ASSUME DOMAIN act = ActFields, NEW st, Finish(st), NEW x
    PROVE  Onward(x)
BY DEF Finish, Onward, ActFields

LEMMA GoToOnward ==
    ASSUME DOMAIN act = ActFields, NEW s, s # "click", NEW x, s \in Opening => x.cdp.wire = 0,
           GoTo(s) \/ \E st : act' = [act EXCEPT !.pc = "send", !.stage = s, !.st = st]
    PROVE  Onward(x)
<1>1. DOMAIN act' = ActFields /\ act'.pc = "send" /\ act'.stage = s
      /\ act'.tool = act.tool /\ act'.slot = act.slot /\ act'.from = act.from
    BY DEF GoTo, ActFields
<1> QED
    BY <1>1 DEF Onward

LEMMA OnwardSettles ==
    ASSUME BrowserInv, act.pc # "idle", Sub(wires', wires), UNCHANGED nextId,
           allowed' \in BudgetType, allowed'.calls = allowed.calls,
           NEW x, GoodTab(x), x.client \in {0, Tab.client}, TabSetTo(x), Onward(x)
    PROVE  BrowserInv'
<1>1. /\ DOMAIN nextId' = BrowserToolNames
      /\ \A t \in BrowserToolNames : nextId'[t] \in Nat \ {0} /\ nextId'[t] >= nextId[t]
    BY NumbersKept
<1>2. /\ DOMAIN act' = ActFields /\ act'.pc \in {"idle", "send"}
      /\ act'.pc = "send" =>
           /\ act'.tool = act.tool /\ act'.slot = act.slot /\ act'.from = act.from /\ act'.stage # "click"
           /\ act'.stage \in Opening => x.cdp.wire = 0
    BY DEF Onward
<1> QED
    BY <1>1, <1>2, Settles

(* A listing has no empty selector, so all of it is kept.                  *)
Listed(tab, refs, u) == [ParseSnapshotResult(tab, refs) EXCEPT !.page = u]

LEMMA ListingKept ==
    ASSUME NEW tab, DOMAIN tab = TabFields, NEW u, NEW refs, refs = Listing(u), NEW x,
           x = Listed(tab, refs, u)
    PROVE  DOMAIN x = TabFields /\ x.refs = refs /\ x.page = u /\ x.cdp = tab.cdp /\ x.target = tab.target
           /\ x.client = tab.client
<1>1. ASSUME NEW e PROVE SelectorOf(e) # <<>>
  <2>1. PICK f, g, h : f = e.id /\ g = e.name /\ h = e.tag
      OBVIOUS
  <2>2. SelectorOf(e) \in {<<"id", f>>, <<"name", h, g>>, <<"tag", h>>}
      BY <2>1 DEF SelectorOf
  <2> QED
      BY <2>2
<1>2. \A i \in DOMAIN refs : refs[i] # <<>>
    BY <1>1 DEF Listing
<1>3. ParseSnapshotResult(tab, refs) = [tab EXCEPT !.refs = refs]
    BY <1>2 DEF ParseSnapshotResult
<1> QED
    BY <1>3 DEF TabFields, Listed

(* What is told under Report was seen on the page of the session.          *)
LEMMA ReportOwn ==
    ASSUME NEW S, Report(S), \A v \in S : v.target = Tab.target /\ v.call = act.from
    PROVE  ReportsOwnPage'
<1>1. PICK t, c : t = Tab.target /\ c = act.from
    OBVIOUS
<1>2. told' = {[tab |-> t, call |-> c, value |-> v] : v \in S}
    BY <1>1 DEF Report
<1> QED
    BY <1>1, <1>2 DEF ReportsOwnPage

LEMMA ClickOwn ==
    ASSUME BrowserInv, act.pc = "receive", act.stage = "click", NEW v, Fitting(act, Tab, v),
           act.call.target.ref # 0,
           hits' = {[tab |-> Tab, page |-> v.seen.url, ref |-> act.call.target.ref, element |-> v.hit]}
    PROVE  ClickHitsListed'
<1>1. PICK tab, u, n, e : tab = Tab /\ u = v.seen.url /\ n = act.call.target.ref /\ e = v.hit
    OBVIOUS
<1>2. PICK sel : sel = act.selector
    OBVIOUS
<1>3. sel = ResolveTarget(tab, act.call.target) /\ sel # <<>>
    BY <1>1, <1>2 DEF BrowserInv, ActInv
<1>4. n \in DOMAIN tab.refs /\ sel = tab.refs[n]
    BY <1>1, <1>3 DEF ResolveTarget
<1>5. tab.refs = Listing(tab.page)
  <2>1. GoodTab(tab)
      BY <1>1, TabOfCall
  <2>2. tab.refs # <<>>
      BY <1>4, EmptyIsSeq
  <2> QED
      BY <2>1, <2>2 DEF GoodTab
<1>6. e = QuerySelector(ElementsOf(u), sel)
    BY <1>1, <1>2 DEF Fitting
<1>7. ASSUME u = tab.page, NEW m, m = ControlsOf(u)[n],
             Matches(ElementsOf(u)[m], SelectorOf(ElementsOf(u)[m])),
             \A i \in 1..(m - 1) : ~Matches(ElementsOf(u)[i], SelectorOf(ElementsOf(u)[m]))
      PROVE  e = m
    BY <1>4, <1>5, <1>6, <1>7, ListedIsFound
<1>8. \A h \in hits' : h.tab = tab /\ h.page = u /\ h.ref = n /\ h.element = e
    BY <1>1
<1> QED
    BY <1>7, <1>8 DEF ClickHitsListed

LEMMA StageSettles ==
    ASSUME BrowserInv, BrowserSound, act.pc = "receive", NEW v, NEW ws, Sub(ws, wires), StageResult(v, ws),
           Fitting(act, Tab, v), UNCHANGED nextId
    PROVE  BrowserInv' /\ BrowserSound'
<1>1. /\ act.tool \in BrowserToolNames /\ act.slot \in DOMAIN tabs[act.tool]
      /\ GoodTab(Tab) /\ DOMAIN act = ActFields /\ allowed \in BudgetType /\ TabsInv /\ act.pc # "idle"
    BY TabOfCall DEF BrowserInv
<1>2. PICK tab : tab = Tab
    OBVIOUS
<1>3. DOMAIN tab = TabFields /\ GoodTab(tab)
    BY <1>1, <1>2 DEF GoodTab
<1>4. ASSUME UNCHANGED <<told, hits>> PROVE BrowserSound'
    BY <1>4 DEF BrowserSound, ReportsOwnPage, ClickHitsListed
<1>5. ASSUME UNCHANGED hits, ReportsOwnPage' PROVE BrowserSound'
    BY <1>5 DEF BrowserSound, ClickHitsListed
<1>6. ASSUME UNCHANGED told, ClickHitsListed' PROVE BrowserSound'
    BY <1>6 DEF BrowserSound, ReportsOwnPage
<1>7. UNCHANGED tabs => TabSetTo(tab)
    BY <1>1, <1>2, TabKept
<1>8. ASSUME wires' = ws, UNCHANGED tabs, allowed' \in BudgetType, allowed'.calls = allowed.calls, Onward(tab)
      PROVE  BrowserInv'
    BY <1>1, <1>2, <1>3, <1>7, <1>8, OnwardSettles
<1>9. UNCHANGED allowed => allowed' \in BudgetType /\ allowed'.calls = allowed.calls
    BY <1>1
<1>10. CASE act.stage = "close" /\ CloseSession("ok", ws) /\ UNCHANGED <<told, hits, allowed>>
    BY <1>1, <1>4, <1>10, NumbersKept, CloseSettles
<1>11. CASE /\ act.stage = "create" /\ wires' = ws /\ SetTab([Tab EXCEPT !.target = v.target]) /\ GoTo("attach")
            /\ UNCHANGED <<told, hits, allowed>>
  <2>1. PICK x : x = [tab EXCEPT !.target = v.target]
      OBVIOUS
  <2>2. tab.cdp.wire = 0
      BY <1>1, <1>2, <1>11 DEF BrowserInv, ActInv, Opening
  <2>3. GoodTab(x) /\ x.cdp.wire = 0 /\ x.client = tab.client
      BY <1>3, <2>1, <2>2 DEF GoodTab, TabFields
  <2>4. TabSetTo(x)
      BY <1>1, <1>2, <1>11, <2>1, SetTabSets
  <2>5. Onward(x)
      BY <1>1, <1>11, <2>3, GoToOnward
  <2> QED
      BY <1>1, <1>2, <1>4, <1>9, <1>11, <2>3, <2>4, <2>5, OnwardSettles
<1>12. CASE /\ act.stage = "attach" /\ wires' = ws /\ SetTab([Tab EXCEPT !.cdp = v.cdp]) /\ GoTo("page")
            /\ UNCHANGED <<told, hits, allowed>>
  <2>1. PICK x : x = [tab EXCEPT !.cdp = v.cdp]
      OBVIOUS
  <2>2. v.cdp.target = tab.target
      BY <1>2, <1>12 DEF Fitting
  <2>3. GoodTab(x) /\ x.client = tab.client
      BY <1>3, <2>1, <2>2 DEF GoodTab, TabFields
  <2>4. TabSetTo(x)
      BY <1>1, <1>2, <1>12, <2>1, SetTabSets
  <2>5. Onward(x)
    <3>1. ~("page" \in Opening)
        BY DEF Opening
    <3> QED
        BY <1>1, <1>12, <3>1, GoToOnward
  <2> QED
      BY <1>1, <1>2, <1>4, <1>9, <1>12, <2>3, <2>4, <2>5, OnwardSettles
<1>13. CASE /\ act.stage \in {"page", "runtime", "navigate"} /\ wires' = ws /\ GoTo(AfterStage[act.stage])
            /\ UNCHANGED <<tabs, told, hits, allowed>>
  <2>1. PICK s : s = AfterStage[act.stage]
      OBVIOUS
  <2>2. s # "click" /\ s \notin Opening
      BY <1>13, <2>1 DEF AfterStage, Opening
  <2>3. Onward(tab)
      BY <1>1, <1>13, <2>1, <2>2, GoToOnward
  <2> QED
      BY <1>4, <1>8, <1>9, <1>13, <2>3
<1>14. CASE /\ act.stage \in {"load", "select"} /\ wires' = ws /\ UNCHANGED <<tabs, told, hits>>
            /\ \/ /\ v.ready /\ UNCHANGED allowed
                  /\ IF act.call.action = "wait" THEN Finish("ok")
                     ELSE IF act.tool = "browser_screenshot" THEN GoTo("screenshot") ELSE Finish("ok")
               \/ ~v.ready /\ DeadlineExpired /\ Finish("timeout") /\ UNCHANGED allowed
               \/ ~v.ready /\ GoTo(act.stage) /\ Spend("polls")
  <2>1. PICK s : s = act.stage
      OBVIOUS
  <2>2. s # "click" /\ s \notin Opening /\ "screenshot" # "click" /\ ~("screenshot" \in Opening)
      BY <1>14, <2>1 DEF Opening
  <2>3. Finish("ok") \/ Finish("timeout") \/ GoTo("screenshot") \/ GoTo(s)
      BY <1>14, <2>1
  <2>4. Onward(tab)
      BY <1>1, <2>2, <2>3, FinishOnward, GoToOnward
  <2>5. UNCHANGED allowed \/ Spend("polls")
      BY <1>14
  <2>6. allowed' \in BudgetType /\ allowed'.calls = allowed.calls
      BY <1>1, <1>9, <2>5, SpendKeeps
  <2> QED
      BY <1>4, <1>8, <1>14, <2>4, <2>6
<1>15. CASE /\ act.stage \in {"eval", "markdown"} /\ wires' = ws /\ Report({v.seen}) /\ Finish("ok")
            /\ UNCHANGED <<tabs, hits, allowed>>
  <2>1. PICK seen : seen = v.seen
      OBVIOUS
  <2>2. seen.target = Tab.target /\ seen.call = act.from
      BY <1>15, <2>1 DEF Fitting, Reading
  <2>3. ReportsOwnPage'
      BY <1>15, <2>1, <2>2, ReportOwn
  <2> QED
      BY <1>1, <1>5, <1>8, <1>9, <1>15, <2>3, FinishOnward
<1>16. CASE /\ act.stage = "script" /\ wires' = ws /\ Report({v.seen}) /\ Finish("ok")
            /\ SetTab([ParseSnapshotResult(Tab, v.refs) EXCEPT !.page = v.seen.url])
            /\ UNCHANGED <<hits, allowed>>
  <2>1. PICK seen, u, refs : seen = v.seen /\ u = v.seen.url /\ refs = v.refs
      OBVIOUS
  <2>2. seen.target = Tab.target /\ seen.call = act.from /\ refs = Listing(u)
      BY <1>16, <2>1 DEF Fitting, Reading
  <2>3. ReportsOwnPage'
      BY <1>16, <2>1, <2>2, ReportOwn
  <2>4. PICK x : x = Listed(tab, refs, u)
      OBVIOUS
  <2>5. DOMAIN x = TabFields /\ x.refs = refs /\ x.page = u /\ x.cdp = tab.cdp /\ x.target = tab.target
           /\ x.client = tab.client
      BY <1>3, <2>2, <2>4, ListingKept
  <2>6. GoodTab(x)
      BY <1>3, <2>2, <2>5 DEF GoodTab
  <2>7. TabSetTo(x)
      BY <1>1, <1>2, <1>16, <2>1, <2>4, SetTabSets DEF Listed
  <2>8. Onward(x)
      BY <1>1, <1>16, FinishOnward
  <2>9. BrowserInv'
      BY <1>1, <1>2, <1>9, <1>16, <2>5, <2>6, <2>7, <2>8, OnwardSettles
  <2> QED
      BY <1>5, <1>16, <2>3, <2>9
<1>17. CASE /\ act.stage = "click" /\ wires' = ws /\ Finish(IF v.hit = 0 THEN "invalid" ELSE "ok")
            /\ hits' = IF v.hit = 0 \/ act.call.target.ref = 0 THEN hits
                       ELSE {[tab |-> Tab, page |-> v.seen.url, ref |-> act.call.target.ref, element |-> v.hit]}
            /\ UNCHANGED <<tabs, told, allowed>>
  <2>1. PICK s : s = IF v.hit = 0 THEN "invalid" ELSE "ok"
      OBVIOUS
  <2>2. Onward(tab)
      BY <1>1, <1>17, <2>1, FinishOnward
  <2>3. BrowserInv'
      BY <1>8, <1>9, <1>17, <2>2
  <2>4. CASE v.hit = 0 \/ act.call.target.ref = 0
      BY <1>4, <1>17, <2>3, <2>4
  <2>5. CASE ~(v.hit = 0 \/ act.call.target.ref = 0)
      BY <1>6, <1>17, <2>3, <2>5, ClickOwn
  <2> QED
      BY <2>4, <2>5
<1>18. CASE /\ act.stage \in {"screenshot", "plain"} /\ wires' = ws /\ UNCHANGED <<tabs, hits, allowed>>
            /\ LET tooLarge == BrowserSettings.maxBytes > 0 /\ v.bytes > BrowserSettings.maxBytes
                   st == IF v.bytes = 0 \/ tooLarge THEN "parse" ELSE "ok"
               IN  /\ Report(IF st = "ok" THEN {v.seen} ELSE {})
                   /\ IF act.tool = "browser" THEN Finish(st)
                      ELSE act' = [act EXCEPT !.pc = "send", !.stage = "close", !.st = st]
  <2>1. PICK st : /\ Report(IF st = "ok" THEN {v.seen} ELSE {})
                  /\ IF act.tool = "browser" THEN Finish(st)
                     ELSE act' = [act EXCEPT !.pc = "send", !.stage = "close", !.st = st]
      BY <1>18
  <2>2. PICK S : S = IF st = "ok" THEN {v.seen} ELSE {}
      OBVIOUS
  <2>3. \A y \in S : y.target = Tab.target /\ y.call = act.from
      BY <1>18, <2>2 DEF Fitting, Reading
  <2>4. ReportsOwnPage'
      BY <2>1, <2>2, <2>3, ReportOwn
  <2>5. ~("close" \in Opening)
      BY DEF Opening
  <2>6. Onward(tab)
      BY <1>1, <2>1, <2>5, FinishOnward, GoToOnward
  <2> QED
      BY <1>5, <1>8, <1>9, <1>18, <2>4, <2>6
<1> QED
    BY <1>10, <1>11, <1>12, <1>13, <1>14, <1>15, <1>16, <1>17, <1>18 DEF StageResult

LEMMA SoundKept ==
    ASSUME BrowserSound, UNCHANGED <<told, hits>>
    PROVE  BrowserSound'
BY DEF BrowserSound, ReportsOwnPage, ClickHitsListed

LEMMA CdpReceiveFailsKeeps ==
    ASSUME BrowserInv, BrowserSound, CdpReceiveFails
    PROVE  BrowserInv' /\ BrowserSound'
<1>1. PICK ws : ws = wires
    OBVIOUS
<1>2. Sub(ws, wires)
    BY <1>1, SubSame DEF BrowserInv
<1>3. FailStage("io", ws) /\ act.pc # "idle" /\ UNCHANGED <<nextId, told, hits, allowed>>
    BY <1>1 DEF CdpReceiveFails
<1> QED
    BY <1>2, <1>3, SoundKept, NumbersKept, FailSettles

LEMMA CdpReceiveKeeps ==
    ASSUME BrowserInv, BrowserSound, CdpReceive
    PROVE  BrowserInv' /\ BrowserSound'
<1>1. PICK c, m : c = Tab.client /\ m = Head(wires[c].in)
    OBVIOUS
<1>2. PICK ws : ws = [wires EXCEPT ![c].in = Tail(@)]
    OBVIOUS
<1>3. /\ act.pc = "receive" /\ act.pc # "idle" /\ wires[c].in # <<>> /\ UNCHANGED nextId
      /\ \/ FailStage("parse", ws) /\ UNCHANGED <<told, hits, allowed>>
         \/ FailStage("timeout", ws) /\ UNCHANGED <<told, hits, allowed>>
         \/ FailStage("cdp_error", ws) /\ UNCHANGED <<told, hits, allowed>>
         \/ act' = [act EXCEPT !.tries = @ + 1] /\ wires' = ws /\ UNCHANGED <<tabs, told, hits, allowed>>
         \/ /\ m.kind = "result" \/ (m.kind = "void" /\ act.stage \in NeedsNoValue)
            /\ m.id = act.id /\ StageResult(m.value, ws)
    BY <1>1, <1>2 DEF CdpReceive, CdpResponseMatches
<1>4. c # 0 /\ c \in DOMAIN wires /\ WiresInv
    BY <1>1, <1>3, TabOfCall DEF BrowserInv, ActInv
<1>5. Sub(ws, wires)
    BY <1>2, <1>3, <1>4, SubTaken
<1>6. ASSUME NEW st, FailStage(st, ws), UNCHANGED <<told, hits, allowed>>
      PROVE  BrowserInv' /\ BrowserSound'
    BY <1>3, <1>5, <1>6, SoundKept, NumbersKept, FailSettles
<1>7. CASE act' = [act EXCEPT !.tries = @ + 1] /\ wires' = ws /\ UNCHANGED <<tabs, told, hits, allowed>>
  <2>1. DOMAIN act = ActFields
      BY <1>3, TabOfCall
  <2>2. /\ DOMAIN act' = ActFields /\ act'.pc = act.pc /\ act'.tool = act.tool /\ act'.slot = act.slot
        /\ act'.from = act.from /\ act'.stage = act.stage /\ act'.selector = act.selector /\ act'.call = act.call
        /\ act'.id = act.id
      BY <1>7, <2>1 DEF ActFields
  <2>3. Tab' = Tab
      BY <1>7, <2>2 DEF Tab
  <2>4. TabsInv' /\ OwnWire'
      BY <1>3, <1>5, <1>7 DEF BrowserInv, TabsInv, OwnWire, Sub
  <2>5. WiresInv'
      BY <1>5, <1>7 DEF BrowserInv, WiresInv, Sub
  <2>6. Numbered'
    <3>1. SUFFICES ASSUME NEW t \in BrowserToolNames, NEW i \in DOMAIN tabs[t], NEW d, d = tabs[t][i].client, d # 0
                   PROVE  /\ \A r \in ws[d].owed : r.id < nextId[t]
                          /\ \A k \in DOMAIN ws[d].in : ws[d].in[k].id < nextId[t]
        BY <1>3, <1>7 DEF Numbered
    <3>2. d \in DOMAIN wires
        BY <3>1 DEF BrowserInv, TabsInv
    <3>3. /\ \A r \in wires[d].owed : r.id < nextId[t]
          /\ \A k \in DOMAIN wires[d].in : wires[d].in[k].id < nextId[t]
        BY <3>1 DEF BrowserInv, Numbered
    <3> QED
        BY <1>5, <3>2, <3>3 DEF Sub
  <2>7. ActInv'
    <3>1. /\ act.tool \in BrowserToolNames /\ act.slot \in DOMAIN tabs[act.tool] /\ act.from = allowed.calls
          /\ act.stage \in Opening => Tab.cdp.wire = 0
          /\ act.stage = "click" => act.selector = ResolveTarget(Tab, act.call.target) /\ act.selector # <<>>
          /\ Tab.client # 0 /\ act.id = nextId[act.tool] - 1 /\ act.id # 0 /\ allowed \in BudgetType
        BY <1>3 DEF BrowserInv, ActInv
    <3>2. PICK a, tab : a = act /\ tab = Tab
        OBVIOUS
    <3>3. /\ \A r \in wires[c].owed : Asked(a, tab, r)
          /\ \A k \in DOMAIN wires[c].in : Answered(a, tab, wires[c].in[k])
        BY <1>1, <1>3, <3>2 DEF BrowserInv, ActInv
    <3>4. /\ \A r \in ws[c].owed : Asked(a, tab, r)
          /\ \A k \in DOMAIN ws[c].in : Answered(a, tab, ws[c].in[k])
        BY <1>4, <1>5, <3>3 DEF Sub
    <3>5. ASSUME NEW r PROVE (Asked(a, tab, r) => Asked(act', tab, r)) /\ (Answered(a, tab, r) => Answered(act', tab, r))
        BY <2>2, <3>2 DEF Asked, Answered, Fitting
    <3>6. /\ \A r \in ws[c].owed : Asked(act', tab, r)
          /\ \A k \in DOMAIN ws[c].in : Answered(act', tab, ws[c].in[k])
        BY <3>4, <3>5
    <3>7. /\ \A r \in wires'[Tab.client].owed : Asked(act', Tab, r)
          /\ \A k \in DOMAIN wires'[Tab.client].in : Answered(act', Tab, wires'[Tab.client].in[k])
        BY <1>1, <1>7, <3>2, <3>6
    <3> QED
        BY <1>3, <1>7, <2>2, <2>3, <3>1, <3>7 DEF ActInv
  <2> QED
      BY <1>7, <2>4, <2>5, <2>6, <2>7, SoundKept DEF BrowserInv
<1>8. CASE /\ m.kind = "result" \/ (m.kind = "void" /\ act.stage \in NeedsNoValue)
           /\ m.id = act.id /\ StageResult(m.value, ws)
  <2>1. PICK v : v = m.value
      OBVIOUS
  <2>2. Fitting(act, Tab, v)
    <3>1. CASE m.kind = "result"
      <4>1. 1 \in DOMAIN wires[c].in /\ m = wires[c].in[1]
          BY <1>1, <1>3, <1>4, SeqRest DEF WiresInv
      <4>2. Answered(act, Tab, m)
          BY <1>1, <1>3, <4>1 DEF BrowserInv, ActInv
      <4> QED
          BY <1>8, <2>1, <3>1, <4>2 DEF Answered
    <3>2. CASE act.stage \in NeedsNoValue
        BY <3>2 DEF NeedsNoValue, Fitting, Reading
    <3> QED
        BY <1>8, <3>1, <3>2
  <2> QED
      BY <1>3, <1>5, <1>8, <2>1, <2>2, StageSettles
<1> QED
    BY <1>3, <1>6, <1>7, <1>8

LEMMA CdpSendKeeps ==
    ASSUME BrowserInv, BrowserSound, CdpSend
    PROVE  BrowserInv' /\ BrowserSound'
<1>1. PICK c, n : c = Tab.client /\ n = nextId[act.tool]
    OBVIOUS
<1>2. /\ act.tool \in BrowserToolNames /\ act.slot \in DOMAIN tabs[act.tool] /\ Tab = tabs[act.tool][act.slot]
      /\ DOMAIN act = ActFields /\ act.pc = "send" /\ act.pc # "idle" /\ act.from = allowed.calls
      /\ allowed \in BudgetType /\ (c = 0 \/ c \in DOMAIN wires) /\ UNCHANGED <<told, hits, allowed>>
    BY <1>1, TabOfCall DEF CdpSend
<1>3. BrowserSound'
    BY <1>2, SoundKept
<1>4. TabsInv /\ WiresInv /\ OwnWire /\ Numbered /\ ActInv
    BY DEF BrowserInv
<1>5. PICK ws : ws = wires
    OBVIOUS
<1>6. Sub(ws, wires)
    BY <1>4, <1>5, SubSame
<1>7. CASE c = 0
  <2>1. FailStage("invalid", ws) /\ UNCHANGED nextId
      BY <1>1, <1>5, <1>7 DEF CdpSend
  <2> QED
      BY <1>2, <1>3, <1>6, <2>1, NumbersKept, FailSettles
<1>8. CASE c # 0
  <2>1. nextId' = [nextId EXCEPT ![act.tool] = n + 1] /\ n \in Nat \ {0}
      BY <1>1, <1>2, <1>4, <1>8 DEF CdpSend, TabsInv
  <2>2. /\ DOMAIN nextId' = BrowserToolNames /\ nextId'[act.tool] = n + 1
        /\ \A t \in BrowserToolNames : nextId'[t] \in Nat \ {0} /\ nextId[t] \in Nat \ {0} /\ nextId'[t] >= nextId[t]
    <3>1. PICK t0 \in BrowserToolNames : t0 = act.tool
        BY <1>2
    <3>2. DOMAIN nextId = BrowserToolNames /\ \A t \in BrowserToolNames : nextId[t] \in Nat \ {0}
        BY <1>4 DEF TabsInv
    <3>3. nextId' = [nextId EXCEPT ![t0] = n + 1] /\ nextId[t0] = n
        BY <1>1, <2>1, <3>1
    <3>4. DOMAIN nextId' = BrowserToolNames /\ \A t \in BrowserToolNames : nextId'[t] = IF t = t0 THEN n + 1 ELSE nextId[t]
        BY <3>2, <3>3
    <3>5. ASSUME NEW t \in BrowserToolNames PROVE nextId'[t] \in Nat \ {0} /\ nextId'[t] >= nextId[t]
        BY <2>1, <3>2, <3>3, <3>4
    <3> QED
        BY <3>1, <3>2, <3>4, <3>5
  <2>3. CASE ~wires[c].up
    <3>1. FailStage("io", ws)
        BY <1>1, <1>5, <1>8, <2>3 DEF CdpSend
    <3> QED
        BY <1>2, <1>3, <1>6, <2>2, <3>1, FailSettles
  <2>4. CASE wires[c].up
    <3>1. PICK r : r = AppendCdpMessage(n)
        OBVIOUS
    <3>2. PICK y : y = [wires[c] EXCEPT !.owed = wires[c].owed \cup {r}]
        OBVIOUS
    <3>3. c \in DOMAIN wires /\ DOMAIN wires[c] = WireFields /\ IsSeq(wires)
        BY <1>2, <1>4, <1>8 DEF WiresInv
    <3>4. DOMAIN y = WireFields /\ y.in = wires[c].in /\ y.owed = wires[c].owed \cup {r}
        BY <3>2, <3>3 DEF WireFields
    <3>5. /\ wires' = [wires EXCEPT ![c].owed = @ \cup {AppendCdpMessage(n)}]
          /\ act' = [act EXCEPT !.pc = "receive", !.id = n, !.tries = 0] /\ UNCHANGED tabs
        BY <1>1, <1>8, <2>4 DEF CdpSend
    <3>6. PICK us : us = [wires EXCEPT ![c] = y]
        OBVIOUS
    <3>7. wires' = us
        BY <3>1, <3>2, <3>5, <3>6
    <3>8. IsSeq(us) /\ DOMAIN us = DOMAIN wires /\ \A j \in DOMAIN wires : us[j] = IF j = c THEN y ELSE wires[j]
        BY <3>3, <3>6, SeqSet
    <3>9. /\ r.id = n /\ r.stage = act.stage /\ r.target = Tab.target /\ r.selector = act.selector
          /\ r.cdp.wire # 0 => r.cdp = Tab.cdp
        BY <3>1, NoTabGood DEF AppendCdpMessage
    <3>10. TabsInv'
        BY <1>4, <2>2, <3>5, <3>7, <3>8 DEF TabsInv
    <3>11. WiresInv'
        BY <1>4, <2>1, <3>4, <3>7, <3>8, <3>9 DEF WiresInv
    <3>12. OwnWire'
        BY <1>4, <3>5 DEF OwnWire
    <3>13. Numbered'
      <4>1. SUFFICES ASSUME NEW t \in BrowserToolNames, NEW i \in DOMAIN tabs[t], NEW d, d = tabs[t][i].client, d # 0
                     PROVE  /\ \A q \in us[d].owed : q.id < nextId'[t]
                            /\ \A k \in DOMAIN us[d].in : us[d].in[k].id < nextId'[t]
          BY <3>5, <3>7 DEF Numbered
      <4>2. d \in DOMAIN wires
          BY <1>4, <4>1 DEF TabsInv
      <4>3. /\ \A q \in wires[d].owed : q.id < nextId[t] /\ q.id \in Nat
            /\ \A k \in DOMAIN wires[d].in : wires[d].in[k].id < nextId[t] /\ wires[d].in[k].id \in Nat
          BY <1>4, <4>1, <4>2 DEF Numbered, WiresInv
      <4>4. nextId[t] \in Nat /\ nextId'[t] \in Nat /\ nextId'[t] >= nextId[t]
          BY <2>2
      <4>5. CASE d # c
          BY <3>8, <4>2, <4>3, <4>4, <4>5
      <4>6. CASE d = c
        <5>1. t = act.tool
            BY <1>1, <1>2, <1>4, <4>1, <4>6 DEF OwnWire
        <5>2. nextId'[t] = n + 1
            BY <2>2, <5>1
        <5>3. us[d] = y
            BY <3>8, <4>2, <4>6
        <5> QED
            BY <2>1, <3>4, <3>9, <4>3, <4>4, <4>6, <5>2, <5>3
      <4> QED
          BY <4>5, <4>6
    <3>14. ActInv'
      <4>1. /\ DOMAIN act' = ActFields /\ act'.pc = "receive" /\ act'.tool = act.tool /\ act'.slot = act.slot
            /\ act'.from = act.from /\ act'.stage = act.stage /\ act'.selector = act.selector /\ act'.call = act.call
            /\ act'.id = n
          BY <1>2, <3>5 DEF ActFields
      <4>2. Tab' = Tab
          BY <3>5, <4>1 DEF Tab
      <4>3. /\ act.stage \in Opening => Tab.cdp.wire = 0
            /\ act.stage = "click" => act.selector = ResolveTarget(Tab, act.call.target) /\ act.selector # <<>>
          BY <1>2, <1>4 DEF ActInv
      <4>4. nextId[act.tool] = n /\ n \in Nat
          BY <1>1, <2>1
      <4>5. /\ \A q \in wires[c].owed : q.id \in Nat /\ q.id < n
            /\ \A k \in DOMAIN wires[c].in : wires[c].in[k].id \in Nat /\ wires[c].in[k].id < n
          BY <1>1, <1>2, <1>4, <1>8, <3>3, <4>4 DEF Numbered, WiresInv
      <4>6. /\ \A q \in wires[c].owed : q.id # n
            /\ \A k \in DOMAIN wires[c].in : wires[c].in[k].id # n
          BY <4>4, <4>5
      <4>7. us[c] = y
          BY <3>3, <3>8
      <4>8. \A q \in us[c].owed : Asked(act', Tab, q)
        <5>1. Asked(act', Tab, r)
            BY <3>9, <4>1 DEF Asked
        <5>2. \A q \in wires[c].owed : Asked(act', Tab, q)
            BY <4>1, <4>6 DEF Asked
        <5> QED
            BY <3>4, <4>7, <5>1, <5>2
      <4>9. \A k \in DOMAIN us[c].in : Answered(act', Tab, us[c].in[k])
          BY <3>4, <4>1, <4>6, <4>7 DEF Answered
      <4>10. act'.id = nextId'[act'.tool] - 1 /\ act'.id # 0
          BY <2>1, <2>2, <4>1
      <4>11. Tab.client # 0 /\ wires'[Tab.client] = us[c]
          BY <1>1, <1>8, <3>7
      <4> QED
          BY <1>2, <3>5, <4>1, <4>2, <4>3, <4>8, <4>9, <4>10, <4>11 DEF ActInv
    <3> QED
        BY <1>3, <3>10, <3>11, <3>12, <3>13, <3>14 DEF BrowserInv
  <2> QED
      BY <2>3, <2>4
<1> QED
    BY <1>7, <1>8

-----------------------------------------------------------------------------
(* A new websocket gets a number no session has.                           *)
LEMMA SameLength ==
    ASSUME NEW s, IsSeq(s), NEW t, IsSeq(t), DOMAIN s = DOMAIN t
    PROVE  Len(s) = Len(t)
<1>1. PICK a, b : a = Len(s) /\ b = Len(t)
    OBVIOUS
<1>2. a \in Nat /\ b \in Nat /\ 1..a = 1..b
    BY <1>1, SeqDomain
<1>3. ~(a < b)
  <2>1. ASSUME a < b PROVE FALSE
    <3>1. b \in 1..b /\ ~(b \in 1..a)
        BY <1>2, <2>1
    <3> QED
        BY <1>2, <3>1
  <2> QED
      BY <2>1
<1>4. ~(b < a)
  <2>1. ASSUME b < a PROVE FALSE
    <3>1. a \in 1..a /\ ~(a \in 1..b)
        BY <1>2, <2>1
    <3> QED
        BY <1>2, <3>1
  <2> QED
      BY <2>1
<1> QED
    BY <1>1, <1>2, <1>3, <1>4

LEMMA ConnectKeeps ==
    ASSUME BrowserInv, BrowserSound, NEW found, NEW up, SessionConnect(found, up)
    PROVE  BrowserInv' /\ BrowserSound'
<1>1. PICK c, tab : c = Tab.client /\ tab = Tab
    OBVIOUS
<1>2. /\ act.tool \in BrowserToolNames /\ act.slot \in DOMAIN tabs[act.tool] /\ Tab = tabs[act.tool][act.slot]
      /\ DOMAIN act = ActFields /\ act.pc # "idle" /\ act.from = allowed.calls /\ GoodTab(tab)
      /\ allowed \in BudgetType /\ (c = 0 \/ c \in DOMAIN wires) /\ UNCHANGED <<told, hits, nextId>>
      /\ act.stage = "connect"
    BY <1>1, TabOfCall DEF SessionConnect
<1>3. BrowserSound'
    BY <1>2, SoundKept
<1>4. TabsInv /\ WiresInv /\ OwnWire /\ Numbered /\ ActInv
    BY DEF BrowserInv
<1>5. tab.cdp.wire = 0
    BY <1>1, <1>2, <1>4 DEF ActInv, Opening
<1>6. PICK vs : vs = wires
    OBVIOUS
<1>7. PICK hs : hs = HangUp(vs, c)
    OBVIOUS
<1>8. Sub(hs, wires) /\ hs = HangUp(wires, c)
    BY <1>2, <1>4, <1>6, <1>7, SubSame, SubHangUp
<1>9. CASE ~(ConnectStatus(found) = "ok" /\ up)
  <2>1. PICK x : x = [tab EXCEPT !.client = 0]
      OBVIOUS
  <2>2. /\ wires' = hs /\ SetTab(x) /\ (Spend("faults") \/ UNCHANGED allowed)
        /\ Finish(IF ConnectStatus(found) = "ok" THEN "io" ELSE ConnectStatus(found))
      BY <1>1, <1>8, <1>9, <2>1 DEF SessionConnect
  <2>3. GoodTab(x) /\ x.client = 0
      BY <1>2, <2>1 DEF GoodTab, TabFields
  <2>4. TabSetTo(x)
      BY <1>2, <1>4, <2>2, SetTabSets
  <2>5. allowed' \in BudgetType /\ allowed'.calls = allowed.calls
      BY <1>2, <2>2, SpendKeeps
  <2>6. PICK st : Finish(st)
      BY <2>2
  <2>7. Onward(x)
      BY <1>2, <2>6, FinishOnward
  <2> QED
      BY <1>2, <1>3, <1>8, <2>2, <2>3, <2>4, <2>5, <2>7, OnwardSettles
<1>10. CASE ConnectStatus(found) = "ok" /\ up
  <2>1. PICK y, n : y = [up |-> TRUE, in |-> <<>>, owed |-> {}] /\ n = Len(wires) + 1
      OBVIOUS
  <2>2. PICK x : x = [tab EXCEPT !.client = n]
      OBVIOUS
  <2>3. PICK us : us = Append(hs, y)
      OBVIOUS
  <2>4. wires' = us /\ SetTab(x) /\ GoTo("create") /\ UNCHANGED allowed
      BY <1>1, <1>8, <1>10, <2>1, <2>2, <2>3 DEF SessionConnect
  <2>5. DOMAIN y = WireFields /\ y.in = <<>> /\ y.owed = {}
      BY <2>1 DEF WireFields
  <2>6. IsSeq(hs) /\ DOMAIN hs = DOMAIN wires /\ n = Len(hs) + 1
      BY <1>4, <1>8, <2>1, SameLength DEF Sub, WiresInv
  <2>7. /\ IsSeq(us) /\ DOMAIN us = DOMAIN wires \cup {n} /\ n \notin DOMAIN wires /\ n \in Nat \ {0}
        /\ \A j \in DOMAIN wires : us[j] = hs[j]
        /\ us[n] = y
    <3>1. /\ IsSeq(us) /\ DOMAIN us = DOMAIN hs \cup {n} /\ n \notin DOMAIN hs /\ n \in Nat \ {0}
          /\ \A j \in DOMAIN hs : us[j] = hs[j]
          /\ us[n] = y
      <4>1. Added(hs, y, us, n)
          BY <2>3, <2>6 DEF Added
      <4>2. Longer(hs, y, us, n)
          BY <2>6, <4>1, SeqAdd
      <4> QED
          BY <4>2 DEF Longer
    <3> QED
        BY <2>6, <3>1
  <2>8. GoodTab(x) /\ x.client = n /\ x.cdp.wire = 0
      BY <1>2, <1>5, <2>2 DEF GoodTab, TabFields
  <2>9. TabSetTo(x)
      BY <1>2, <1>4, <2>4, SetTabSets
  <2>10. \A u \in BrowserToolNames : \A j \in DOMAIN tabs[u] :
            /\ GoodTab(tabs'[u][j])
            /\ \/ tabs'[u][j].client = n /\ u = act.tool /\ j = act.slot
               \/ tabs'[u][j].client = tabs[u][j].client /\ tabs[u][j].client \in {0} \cup DOMAIN wires
      BY <1>4, <2>8, <2>9 DEF TabSetTo, TabsInv
  <2>11. DOMAIN tabs' = BrowserToolNames /\ \A u \in BrowserToolNames : IsSeq(tabs'[u]) /\ DOMAIN tabs'[u] = DOMAIN tabs[u]
      BY <2>9 DEF TabSetTo
  <2>12. TabsInv'
      BY <1>2, <1>4, <2>4, <2>7, <2>10, <2>11 DEF TabsInv
  <2>13. WiresInv'
    <3>1. \A w \in DOMAIN wires : /\ w # 0 /\ DOMAIN us[w] = WireFields /\ IsSeq(us[w].in)
                                  /\ \A r \in us[w].owed : r.id \in Nat
                                  /\ \A k \in DOMAIN us[w].in : us[w].in[k].id \in Nat
        BY <1>4, <1>8, <2>7 DEF WiresInv, Sub
    <3>2. /\ n # 0 /\ DOMAIN us[n] = WireFields /\ IsSeq(us[n].in)
          /\ us[n].owed = {} /\ DOMAIN us[n].in = {}
        BY <2>5, <2>7, EmptyIsSeq
    <3> QED
        BY <2>4, <2>7, <3>1, <3>2 DEF WiresInv
  <2>14. OwnWire'
    <3>1. SUFFICES ASSUME NEW t \in BrowserToolNames, NEW u \in BrowserToolNames, NEW i \in DOMAIN tabs[t],
                          NEW j \in DOMAIN tabs[u], tabs'[t][i].client = tabs'[u][j].client, tabs'[t][i].client # 0
                   PROVE  t = u /\ i = j
        BY <2>11 DEF OwnWire
    <3>2. CASE tabs'[t][i].client = n
      <4>1. t = act.tool /\ i = act.slot
          BY <2>7, <2>10, <3>2
      <4>2. ~(n \in {0} \cup DOMAIN wires)
          BY <2>7
      <4>3. tabs'[u][j].client = n
          BY <3>1, <3>2
      <4>4. u = act.tool /\ j = act.slot
          BY ONLY <2>10, <4>2, <4>3, u \in BrowserToolNames, j \in DOMAIN tabs[u]
      <4> QED
          BY <4>1, <4>4
    <3>3. CASE tabs'[t][i].client # n
        BY <1>4, <2>10, <3>1, <3>3 DEF OwnWire
    <3> QED
        BY <3>2, <3>3
  <2>15. Numbered'
    <3>1. SUFFICES ASSUME NEW t \in BrowserToolNames, NEW i \in DOMAIN tabs[t], NEW d, d = tabs'[t][i].client, d # 0
                   PROVE  /\ \A r \in us[d].owed : r.id < nextId[t]
                          /\ \A k \in DOMAIN us[d].in : us[d].in[k].id < nextId[t]
        BY <1>2, <2>4, <2>11 DEF Numbered
    <3>2. CASE d = n
      <4>1. us[d].owed = {} /\ DOMAIN us[d].in = {}
          BY <2>5, <2>7, <3>2, EmptyIsSeq
      <4> QED
          BY <4>1
    <3>3. CASE d # n
      <4>1. d = tabs[t][i].client /\ d \in DOMAIN wires
          BY <2>10, <3>1, <3>3
      <4>2. /\ \A r \in wires[d].owed : r.id < nextId[t]
            /\ \A k \in DOMAIN wires[d].in : wires[d].in[k].id < nextId[t]
          BY <1>4, <3>1, <4>1 DEF Numbered
      <4>3. us[d] = hs[d]
          BY <2>7, <4>1
      <4>4. /\ \A r \in hs[d].owed : r.id < nextId[t]
            /\ \A k \in DOMAIN hs[d].in : hs[d].in[k].id < nextId[t]
          BY <1>8, <4>1, <4>2 DEF Sub
      <4> QED
          BY <4>3, <4>4
    <3> QED
        BY <3>2, <3>3
  <2>16. ActInv'
    <3>1. /\ DOMAIN act' = ActFields /\ act'.pc = "send" /\ act'.tool = act.tool /\ act'.slot = act.slot
          /\ act'.from = act.from /\ act'.stage = "create"
        BY <1>2, <2>4 DEF GoTo, ActFields
    <3>2. Tab' = x
        BY <1>2, <2>9, <3>1 DEF Tab, TabSetTo
    <3> QED
        BY <1>2, <2>4, <2>8, <2>11, <3>1, <3>2 DEF ActInv
  <2> QED
      BY <1>3, <2>12, <2>13, <2>14, <2>15, <2>16 DEF BrowserInv
<1> QED
    BY <1>9, <1>10

-----------------------------------------------------------------------------
(* Sessions are added empty, changed or cleared, and keep their websocket  *)
(* or have none.                                                           *)
LEMMA TabsShrink ==
    ASSUME BrowserInv, Sub(wires', wires), UNCHANGED nextId, DOMAIN tabs' = BrowserToolNames,
           \A u \in BrowserToolNames :
               /\ IsSeq(tabs'[u])
               /\ \A j \in DOMAIN tabs'[u] :
                     /\ GoodTab(tabs'[u][j])
                     /\ \/ tabs'[u][j].client = 0
                        \/ j \in DOMAIN tabs[u] /\ tabs'[u][j].client = tabs[u][j].client
    PROVE  TabsInv' /\ WiresInv' /\ OwnWire' /\ Numbered'
<1>0. TabsInv /\ WiresInv /\ OwnWire /\ Numbered
    BY DEF BrowserInv
<1>1. DOMAIN wires' = DOMAIN wires
    BY DEF Sub
<1>2. TabsInv'
    BY <1>0, <1>1 DEF TabsInv
<1>3. WiresInv'
    BY <1>0 DEF WiresInv, Sub
<1>4. OwnWire'
    BY <1>0 DEF OwnWire
<1>5. Numbered'
  <2>1. SUFFICES ASSUME NEW t \in BrowserToolNames, NEW i \in DOMAIN tabs'[t], NEW c, c = tabs'[t][i].client, c # 0
                 PROVE  /\ \A r \in wires'[c].owed : r.id < nextId[t]
                        /\ \A k \in DOMAIN wires'[c].in : wires'[c].in[k].id < nextId[t]
      BY DEF Numbered
  <2>2. i \in DOMAIN tabs[t] /\ c = tabs[t][i].client /\ c \in DOMAIN wires
      BY <1>0, <2>1 DEF TabsInv
  <2>3. /\ \A r \in wires[c].owed : r.id < nextId[t]
        /\ \A k \in DOMAIN wires[c].in : wires[c].in[k].id < nextId[t]
      BY <1>0, <2>1, <2>2 DEF Numbered
  <2>4. /\ wires'[c].owed \subseteq wires[c].owed
        /\ \A k \in DOMAIN wires'[c].in : \E l \in DOMAIN wires[c].in : wires'[c].in[k] = wires[c].in[l]
      BY <2>2 DEF Sub
  <2> QED
      BY <2>3, <2>4
<1> QED
    BY <1>2, <1>3, <1>4, <1>5

(* The sessions of one tool become s.                                      *)
LEMMA ToolShrinks ==
    ASSUME BrowserInv, NEW t \in BrowserToolNames, NEW s, tabs' = [tabs EXCEPT ![t] = s], IsSeq(s),
           \A j \in DOMAIN s : /\ GoodTab(s[j])
                               /\ s[j].client = 0 \/ (j \in DOMAIN tabs[t] /\ s[j].client = tabs[t][j].client)
    PROVE  /\ DOMAIN tabs' = BrowserToolNames /\ tabs'[t] = s
           /\ \A u \in BrowserToolNames :
               /\ IsSeq(tabs'[u])
               /\ \A j \in DOMAIN tabs'[u] :
                     /\ GoodTab(tabs'[u][j])
                     /\ \/ tabs'[u][j].client = 0
                        \/ j \in DOMAIN tabs[u] /\ tabs'[u][j].client = tabs[u][j].client
<1>1. TabsInv
    BY DEF BrowserInv
<1>2. DOMAIN tabs' = BrowserToolNames /\ \A u \in BrowserToolNames : tabs'[u] = IF u = t THEN s ELSE tabs[u]
    BY <1>1 DEF TabsInv
<1> QED
    BY <1>1, <1>2 DEF TabsInv

LEMMA TabsSame ==
    ASSUME BrowserInv, UNCHANGED <<tabs, wires, nextId>>
    PROVE  TabsInv' /\ WiresInv' /\ OwnWire' /\ Numbered'
BY DEF BrowserInv, TabsInv, WiresInv, OwnWire, Numbered

LEMMA ReopenedGood ==
    ASSUME NEW tab, GoodTab(tab), NEW x, x = Reopened(tab)
    PROVE  GoodTab(x) /\ x.client = tab.client /\ x.cdp.wire = 0
<1>1. PICK y : y = [tab EXCEPT !.refs = <<>>]
    OBVIOUS
<1>2. PICK e : e = NoTab.cdp
    OBVIOUS
<1>3. x = [y EXCEPT !.target = 0, !.cdp = e] /\ e.wire = 0
    BY <1>1, <1>2, NoTabGood DEF Reopened, SessionClearRefs
<1> QED
    BY <1>1, <1>3 DEF GoodTab, TabFields

LEMMA FoundSession ==
    ASSUME BrowserInv, NEW t \in BrowserToolNames, NEW name, FindSession(t, name) # 0
    PROVE  FindSession(t, name) \in DOMAIN tabs[t]
<1>1. PICK s : s = tabs[t]
    OBVIOUS
<1>2. Len(s) \in Nat /\ DOMAIN s = 1..Len(s)
    BY <1>1, SeqDomain DEF BrowserInv, TabsInv
<1>3. PICK open : open = {i \in 1..Len(s) : s[i].active /\ s[i].name = NormalizedName(name)}
    OBVIOUS
<1>4. FindSession(t, name) = IF open = {} THEN 0 ELSE Min(open)
    BY <1>1, <1>3 DEF FindSession
<1>5. open # {} /\ open \subseteq Nat /\ open \subseteq DOMAIN s
    BY <1>2, <1>3, <1>4
<1> QED
    BY <1>1, <1>4, <1>5, SmallestOf

(* The slot browser_open takes, and the sessions it leaves.                *)
LEMMA OpenedSlot ==
    ASSUME BrowserInv, NEW t \in BrowserToolNames, NEW name, NEW slot, NEW all,
           slot = GetOrCreateSession(t, name)[1], all = GetOrCreateSession(t, name)[2]
    PROVE  /\ IsSeq(all) /\ slot \in DOMAIN all
           /\ \A j \in DOMAIN all : /\ GoodTab(all[j])
                                    /\ all[j].client = 0 \/ (j \in DOMAIN tabs[t] /\ all[j].client = tabs[t][j].client)
<1>1. PICK s : s = tabs[t]
    OBVIOUS
<1>2. IsSeq(s) /\ Len(s) \in Nat /\ DOMAIN s = 1..Len(s) /\ \A j \in DOMAIN s : GoodTab(s[j])
    BY <1>1, SeqDomain DEF BrowserInv, TabsInv
<1>3. PICK free : free = {i \in 1..Len(s) : ~s[i].active}
    OBVIOUS
<1>4. PICK f : f = FindSession(t, name)
    OBVIOUS
<1>5. PICK x : x = [NoTab EXCEPT !.name = NormalizedName(name), !.active = TRUE]
    OBVIOUS
<1>6. GoodTab(x) /\ x.client = 0
  <2>1. PICK n, a : n = NormalizedName(name) /\ a = TRUE
      OBVIOUS
  <2>2. PICK y : y = NoTab
      OBVIOUS
  <2>3. x = [y EXCEPT !.name = n, !.active = a]
      BY <1>5, <2>1, <2>2
  <2> QED
      BY <2>2, <2>3, NoTabGood DEF GoodTab, TabFields
<1>7. CASE f # 0
  <2>1. slot = f /\ all = s
      BY <1>1, <1>4, <1>7 DEF GetOrCreateSession
  <2>2. f \in DOMAIN s
      BY <1>1, <1>4, <1>7, FoundSession
  <2> QED
      BY <1>1, <1>2, <2>1, <2>2
<1>8. CASE f = 0 /\ free # {}
  <2>1. PICK m : m = Min(free)
      OBVIOUS
  <2>2. m \in free /\ m \in DOMAIN s
      BY <1>2, <1>3, <1>8, <2>1, SmallestOf
  <2>3. slot = m /\ all = [s EXCEPT ![m] = x]
      BY <1>1, <1>3, <1>4, <1>5, <1>8, <2>1 DEF GetOrCreateSession, SessionClear
  <2>4. IsSeq(all) /\ DOMAIN all = DOMAIN s /\ \A j \in DOMAIN s : all[j] = IF j = m THEN x ELSE s[j]
    <3>1. PICK y : y = [s EXCEPT ![m] = x]
        OBVIOUS
    <3>2. IsSeq(y) /\ DOMAIN y = DOMAIN s /\ \A j \in DOMAIN s : y[j] = IF j = m THEN x ELSE s[j]
        BY ONLY <1>2, <2>2, <3>1, SeqSet
    <3>3. y = all
        BY <2>3, <3>1
    <3> QED
        BY <3>2, <3>3
  <2> QED
      BY <1>1, <1>2, <1>6, <2>2, <2>3, <2>4
<1>9. CASE f = 0 /\ free = {}
  <2>1. PICK n : n = Len(s) + 1
      OBVIOUS
  <2>2. slot = n /\ all = Append(s, x)
      BY <1>1, <1>3, <1>4, <1>5, <1>9, <2>1 DEF GetOrCreateSession
  <2>3. Added(s, x, all, n)
      BY <2>1, <2>2 DEF Added
  <2>4. /\ IsSeq(all) /\ DOMAIN all = DOMAIN s \cup {n} /\ n \notin DOMAIN s
        /\ \A j \in DOMAIN s : all[j] = s[j]
        /\ all[n] = x
    <3>1. Longer(s, x, all, n)
        BY <1>2, <2>3, SeqAdd
    <3> QED
        BY <3>1 DEF Longer
  <2> QED
      BY <1>1, <1>2, <1>6, <2>2, <2>4
<1> QED
    BY <1>7, <1>8, <1>9

(* A call that gets through has an action the tool knows.                  *)
LEMMA CheckedFirst ==
    ASSUME NEW checks, IsSeq(checks), NEW i \in DOMAIN checks, FirstFailure(checks) = "ok"
    PROVE  checks[i] = "ok"
<1>1. Len(checks) \in Nat /\ DOMAIN checks = 1..Len(checks)
    BY SeqDomain
<1>2. PICK bad : bad = {k \in 1..Len(checks) : checks[k] # "ok"}
    OBVIOUS
<1>3. FirstFailure(checks) = IF bad = {} THEN "ok" ELSE checks[Min(bad)]
    BY <1>2 DEF FirstFailure
<1>4. bad = {}
  <2>1. ASSUME bad # {} PROVE FALSE
    <3>1. bad \subseteq Nat
        BY <1>1, <1>2
    <3>2. Min(bad) \in bad
        BY <2>1, <3>1, SmallestOf
    <3> QED
        BY <1>2, <1>3, <2>1, <3>2
  <2> QED
      BY <2>1
<1> QED
    BY <1>1, <1>2, <1>4

LEMMA ActionPassed ==
    ASSUME NEW args, BrowserInvokeCheck(args) = "ok"
    PROVE  args.action \in ActionKnown
<1>1. PICK a, b : a = Unless(~args.cancelled, "cancelled") /\ b = Unless(args.action \in ActionKnown, "invalid")
    OBVIOUS
<1>2. b = "ok"
  <2>1. PICK c, d, e, f, g, h :
            /\ c = Unless(BrowserSettings.enabled, "unsupported") /\ d = GetOptionalTimeout(args)
            /\ e = Unless(~ActionRequiresUrl(args.action) \/ args.url # "", "invalid")
            /\ f = Unless(~ActionRequiresTarget(args.action) \/ args.target.ref # 0 \/ args.target.css # <<>>, "invalid")
            /\ g = Unless(args.permitted, "denied")
            /\ h = IF ActionRequiresUrl(args.action) THEN ConfigDomainCheck(args) ELSE "ok"
      BY Zenon
  <2>2. PICK checks : checks = IF args.action = "diagnose" THEN <<a, b>> ELSE <<a, b>> \o <<c, d, e, f, g, h>>
      OBVIOUS
  <2>3. FirstFailure(checks) = "ok"
      BY <1>1, <2>1, <2>2, Zenon DEF BrowserInvokeCheck
  <2>4. IsSeq(checks) /\ 2 \in DOMAIN checks /\ checks[2] = b
    <3>1. CASE args.action = "diagnose"
      <4>1. checks = <<a, b>> /\ checks \in Seq({a, b})
          BY <2>2, <3>1
      <4>2. IsSeq(checks)
          BY <4>1 DEF IsSeq
      <4> QED
          BY <4>1, <4>2
    <3>2. CASE args.action # "diagnose"
      <4>1. PICK S : S = {a, b, c, d, e, f, g, h}
          OBVIOUS
      <4>2. PICK s, t : s = <<a, b>> /\ t = <<c, d, e, f, g, h>>
          OBVIOUS
      <4>3. s \in Seq(S) /\ t \in Seq(S) /\ Len(s) = 2 /\ Len(t) = 6 /\ s[2] = b
          BY <4>1, <4>2
      <4>4. s \o t \in Seq(S) /\ Len(s \o t) = 8 /\ (s \o t)[2] = b
        <5>1. /\ s \o t \in Seq(S) /\ Len(s \o t) = Len(s) + Len(t)
              /\ \A i \in 1..Len(s) + Len(t) : (s \o t)[i] = IF i <= Len(s) THEN s[i] ELSE t[i - Len(s)]
            BY ONLY <4>3, ConcatProperties, Zenon
        <5> QED
            BY <4>3, <5>1
      <4>5. checks = s \o t
          BY <2>2, <3>2, <4>2
      <4>6. checks \in Seq(S) /\ Len(checks) = 8 /\ checks[2] = b
          BY <4>4, <4>5
      <4> QED
          BY <4>6, LenProperties DEF IsSeq
    <3> QED
        BY <3>1, <3>2
  <2> QED
      BY <2>3, <2>4, CheckedFirst
<1> QED
    BY <1>1, <1>2 DEF Unless

LEMMA SpendCall ==
    ASSUME allowed \in BudgetType, Spend("calls")
    PROVE  allowed' \in BudgetType /\ allowed'.calls = allowed.calls - 1
<1>1. PICK b \in BudgetType : b = allowed
    OBVIOUS
<1>2. b.calls > 0 /\ allowed' = [b EXCEPT !.calls = b.calls - 1]
    BY <1>1 DEF Spend
<1> QED
    BY <1>1, <1>2 DEF BudgetType

(* The call that begins.                                                   *)
Begun(args, slot) == [NoAct EXCEPT !.pc = "send", !.call = args, !.tool = args.tool, !.slot = slot,
                                   !.from = allowed.calls - 1]

LEMMA BegunFields ==
    ASSUME NEW args, NEW slot, NEW a, a = Begun(args, slot)
    PROVE  DOMAIN a = ActFields /\ a.pc = "send" /\ a.call = args /\ a.tool = args.tool /\ a.slot = slot
           /\ a.from = allowed.calls - 1
<1>1. PICK n : n = allowed.calls - 1
    OBVIOUS
<1>2. PICK z : z = NoAct
    OBVIOUS
<1>3. DOMAIN z = ActFields
    BY <1>2 DEF NoAct, ActFields
<1>4. a = [z EXCEPT !.pc = "send", !.call = args, !.tool = args.tool, !.slot = slot, !.from = n]
    BY <1>1, <1>2 DEF Begun
<1> QED
    BY <1>1, <1>3, <1>4 DEF ActFields

LEMMA StageKnown ==
    ASSUME NEW action \in ActionKnown, NEW target, NEW s, s = StageOf(action, target)
    PROVE  s \notin Opening /\ (s = "click" => action = "click")
<1>1. CASE action \in {"title", "get_title", "text", "get", "get_text"}
    BY <1>1 DEF StageOf, Opening
<1>2. CASE action = "snapshot"
    BY <1>2 DEF StageOf, Opening
<1>3. CASE action = "wait"
    BY <1>3 DEF StageOf, Opening
<1>4. CASE action \in {"open", "click", "screenshot", "close", "diagnose"}
    BY <1>4 DEF StageOf, Opening
<1> QED
    BY <1>1, <1>2, <1>3, <1>4 DEF ActionKnown

LEMMA InvokeKeeps ==
    ASSUME BrowserInv, BrowserSound, NEW args \in BrowserCalls, Invoke(args)
    PROVE  BrowserInv' /\ BrowserSound'
<1>1. PICK tool \in BrowserToolNames : tool = args.tool
    BY BrowserAssumption DEF BrowserToolNames
<1>2. PICK st : st = IF tool = "browser" THEN BrowserInvokeCheck(args) ELSE ScreenshotInvokeCheck(args)
    OBVIOUS
<1>3. PICK slot, name : slot = FindSession(tool, name) /\ name = args.session
    OBVIOUS
<1>4. PICK b : b = Begun(args, slot)
    OBVIOUS
<1>5. /\ DOMAIN b = ActFields /\ b.pc = "send" /\ b.call = args /\ b.tool = tool /\ b.slot = slot
      /\ b.from = allowed.calls - 1
    BY <1>1, <1>4, BegunFields
<1>6. PICK ns, all : ns = GetOrCreateSession(tool, name)[1] /\ all = GetOrCreateSession(tool, name)[2]
    OBVIOUS
<1>7. PICK sel : sel = ResolveTarget(tabs[tool][slot], args.target)
    OBVIOUS
<1>8. Spend("calls") /\ told' = {} /\ UNCHANGED <<nextId, hits>>
    BY DEF Invoke
<1>9. allowed' \in BudgetType /\ allowed'.calls = allowed.calls - 1
    BY <1>8, SpendCall DEF BrowserInv, ActInv
<1>10. BrowserSound'
    BY <1>8 DEF BrowserSound, ReportsOwnPage, ClickHitsListed
<1>11. ASSUME NEW s, act' = [b EXCEPT !.pc = "idle", !.slot = 0, !.st = s]
       PROVE  ActInv'
  <2>1. DOMAIN act' = ActFields /\ act'.pc = "idle"
      BY <1>5, <1>11 DEF ActFields
  <2> QED
      BY <1>9, <2>1 DEF ActInv
<1>12. CASE (\E s : act' = [b EXCEPT !.pc = "idle", !.slot = 0, !.st = s]) /\ UNCHANGED <<tabs, wires>>
    BY <1>8, <1>10, <1>11, <1>12, TabsSame DEF BrowserInv
<1>13. CASE /\ tabs' = [tabs EXCEPT ![tool] = [all EXCEPT ![ns] = Reopened(@)]]
            /\ act' = [b EXCEPT !.slot = ns, !.stage = "connect"] /\ UNCHANGED wires
  <2>1. /\ IsSeq(all) /\ ns \in DOMAIN all
        /\ \A j \in DOMAIN all : /\ GoodTab(all[j])
                                 /\ all[j].client = 0 \/ (j \in DOMAIN tabs[tool] /\ all[j].client = tabs[tool][j].client)
      BY <1>6, OpenedSlot
  <2>2. PICK x : x = Reopened(all[ns])
      OBVIOUS
  <2>3. GoodTab(x) /\ x.client = all[ns].client /\ x.cdp.wire = 0
      BY <2>1, <2>2, ReopenedGood
  <2>4. PICK s : s = [all EXCEPT ![ns] = x]
      OBVIOUS
  <2>5. IsSeq(s) /\ DOMAIN s = DOMAIN all /\ \A j \in DOMAIN all : s[j] = IF j = ns THEN x ELSE all[j]
      BY <2>1, <2>4, SeqSet
  <2>6. tabs' = [tabs EXCEPT ![tool] = s]
      BY <1>13, <2>2, <2>4
  <2>7. \A j \in DOMAIN s : /\ GoodTab(s[j])
                            /\ s[j].client = 0 \/ (j \in DOMAIN tabs[tool] /\ s[j].client = tabs[tool][j].client)
      BY <2>1, <2>3, <2>5
  <2>8. /\ DOMAIN tabs' = BrowserToolNames /\ tabs'[tool] = s
        /\ \A u \in BrowserToolNames :
               /\ IsSeq(tabs'[u])
               /\ \A j \in DOMAIN tabs'[u] :
                     /\ GoodTab(tabs'[u][j])
                     /\ \/ tabs'[u][j].client = 0
                        \/ j \in DOMAIN tabs[u] /\ tabs'[u][j].client = tabs[u][j].client
      BY <2>5, <2>6, <2>7, ToolShrinks
  <2>9. Sub(wires', wires)
      BY <1>13, SubSame DEF BrowserInv
  <2>10. TabsInv' /\ WiresInv' /\ OwnWire' /\ Numbered'
      BY <1>8, <2>8, <2>9, TabsShrink
  <2>11. /\ DOMAIN act' = ActFields /\ act'.pc = "send" /\ act'.tool = tool /\ act'.slot = ns
         /\ act'.from = allowed'.calls /\ act'.stage = "connect"
      BY <1>5, <1>9, <1>13 DEF ActFields
  <2>12. Tab' = x
      BY <2>1, <2>5, <2>8, <2>11 DEF Tab
  <2>13. ActInv'
      BY <1>9, <2>1, <2>3, <2>5, <2>8, <2>11, <2>12 DEF ActInv
  <2> QED
      BY <1>10, <2>10, <2>13 DEF BrowserInv
<1>14. CASE slot # 0 /\ act' = [b EXCEPT !.stage = "close"] /\ UNCHANGED <<tabs, wires>>
  <2>1. slot \in DOMAIN tabs[tool]
      BY <1>3, <1>14, FoundSession
  <2>2. /\ DOMAIN act' = ActFields /\ act'.pc = "send" /\ act'.tool = tool /\ act'.slot = slot
        /\ act'.from = allowed'.calls /\ act'.stage = "close"
      BY <1>5, <1>9, <1>14 DEF ActFields
  <2>3. ActInv'
      BY <1>9, <1>14, <2>1, <2>2 DEF ActInv, Opening
  <2> QED
      BY <1>8, <1>10, <1>14, <2>3, TabsSame DEF BrowserInv
<1>15. CASE /\ slot # 0 /\ (\E s : act' = [b EXCEPT !.pc = "idle", !.slot = 0, !.st = s])
            /\ wires' = HangUp(wires, tabs[tool][slot].client)
            /\ tabs' = [tabs EXCEPT ![tool][slot] = SessionClear(@)]
  <2>1. PICK s, c, vs : s = [tabs[tool] EXCEPT ![slot] = NoTab] /\ c = tabs[tool][slot].client /\ vs = wires
      OBVIOUS
  <2>2. slot \in DOMAIN tabs[tool] /\ IsSeq(tabs[tool]) /\ (c = 0 \/ c \in DOMAIN wires)
        /\ \A j \in DOMAIN tabs[tool] : GoodTab(tabs[tool][j])
      BY <1>3, <1>15, <2>1, FoundSession DEF BrowserInv, TabsInv
  <2>3. IsSeq(s) /\ DOMAIN s = DOMAIN tabs[tool]
        /\ \A j \in DOMAIN tabs[tool] : s[j] = IF j = slot THEN NoTab ELSE tabs[tool][j]
      BY <2>1, <2>2, SeqSet
  <2>4. tabs' = [tabs EXCEPT ![tool] = s]
      BY <1>15, <2>1 DEF SessionClear
  <2>5. \A j \in DOMAIN s : /\ GoodTab(s[j])
                            /\ s[j].client = 0 \/ (j \in DOMAIN tabs[tool] /\ s[j].client = tabs[tool][j].client)
      BY <2>2, <2>3, NoTabGood
  <2>6. /\ DOMAIN tabs' = BrowserToolNames /\ tabs'[tool] = s
        /\ \A u \in BrowserToolNames :
               /\ IsSeq(tabs'[u])
               /\ \A j \in DOMAIN tabs'[u] :
                     /\ GoodTab(tabs'[u][j])
                     /\ \/ tabs'[u][j].client = 0
                        \/ j \in DOMAIN tabs[u] /\ tabs'[u][j].client = tabs[u][j].client
      BY <2>3, <2>4, <2>5, ToolShrinks
  <2>7. Sub(HangUp(vs, c), wires)
      BY <2>1, <2>2, SubSame, SubHangUp DEF BrowserInv
  <2>8. Sub(wires', wires)
      BY <1>15, <2>1, <2>7
  <2>9. TabsInv' /\ WiresInv' /\ OwnWire' /\ Numbered'
      BY <1>8, <2>6, <2>8, TabsShrink
  <2> QED
      BY <1>10, <1>11, <1>15, <2>9 DEF BrowserInv
<1>16. CASE /\ slot # 0 /\ tool = "browser" /\ st = "ok" /\ UNCHANGED <<tabs, wires>>
            /\ ~(args.action = "click" /\ sel = <<>>)
            /\ act' = [b EXCEPT !.stage = StageOf(args.action, args.target),
                                !.selector = IF args.action = "click" THEN sel ELSE args.target.css]
  <2>1. slot \in DOMAIN tabs[tool]
      BY <1>3, <1>16, FoundSession
  <2>2. PICK s, v : s = StageOf(args.action, args.target) /\ v = IF args.action = "click" THEN sel ELSE args.target.css
      OBVIOUS
  <2>3. args.action \in ActionKnown
      BY <1>2, <1>16, ActionPassed
  <2>4. s \notin Opening /\ (s = "click" => args.action = "click")
      BY <2>2, <2>3, StageKnown
  <2>5. act' = [b EXCEPT !.stage = s, !.selector = v]
      BY <1>16, <2>2
  <2>6. /\ DOMAIN act' = ActFields /\ act'.pc = "send" /\ act'.tool = tool /\ act'.slot = slot
        /\ act'.from = allowed'.calls /\ act'.stage = s /\ act'.selector = v /\ act'.call = args
      BY <1>5, <1>9, <2>5 DEF ActFields
  <2>7. Tab' = tabs[tool][slot]
      BY <1>16, <2>6 DEF Tab
  <2>8. s = "click" => v = sel /\ sel # <<>>
      BY <1>16, <2>2, <2>4
  <2>9. ActInv'
      BY <1>7, <1>9, <1>16, <2>1, <2>4, <2>6, <2>7, <2>8 DEF ActInv
  <2> QED
      BY <1>8, <1>10, <1>16, <2>9, TabsSame DEF BrowserInv
<1> QED
  <2> DEFINE rejected(s) == act' = [b EXCEPT !.pc = "idle", !.slot = 0, !.st = s]
  <2>1. \/ rejected(st) /\ UNCHANGED <<tabs, wires>>
        \/ rejected("ok") /\ UNCHANGED <<tabs, wires>>
        \/ /\ tabs' = [tabs EXCEPT ![tool] = [all EXCEPT ![ns] = Reopened(@)]]
           /\ act' = [b EXCEPT !.slot = ns, !.stage = "connect"] /\ UNCHANGED wires
        \/ slot # 0 /\ act' = [b EXCEPT !.stage = "close"] /\ UNCHANGED <<tabs, wires>>
        \/ /\ slot # 0 /\ rejected("ok") /\ wires' = HangUp(wires, tabs[tool][slot].client)
           /\ tabs' = [tabs EXCEPT ![tool][slot] = SessionClear(@)]
        \/ rejected("invalid") /\ UNCHANGED <<tabs, wires>>
        \/ /\ slot # 0 /\ tool = "browser" /\ st = "ok" /\ UNCHANGED <<tabs, wires>>
           /\ ~(args.action = "click" /\ sel = <<>>)
           /\ act' = [b EXCEPT !.stage = StageOf(args.action, args.target),
                               !.selector = IF args.action = "click" THEN sel ELSE args.target.css]
      BY <1>1, <1>2, <1>3, <1>4, <1>6, <1>7 DEF Invoke, Begun
  <2> QED
      BY <1>12, <1>13, <1>14, <1>15, <1>16, <2>1

LEMMA DestroyKeeps ==
    ASSUME BrowserInv, BrowserSound, BrowserDestroy
    PROVE  BrowserInv' /\ BrowserSound'
<1>1. PICK n \in Nat : n = Len(wires) /\ DOMAIN wires = 1..n
    BY SeqDomain DEF BrowserInv, WiresInv
<1>2. PICK y : y = [up |-> FALSE, in |-> <<>>, owed |-> {}]
    OBVIOUS
<1>3. DOMAIN y = WireFields /\ IsSeq(y.in) /\ DOMAIN y.in = {} /\ y.owed = {}
    BY <1>2, EmptyIsSeq DEF WireFields
<1>4. wires' = [w \in 1..n |-> y]
  <2>1. \A w \in 1..n : HangUp(wires, w)[w] = y
      BY <1>1, <1>2 DEF HangUp
  <2> QED
      BY <1>1, <2>1 DEF BrowserDestroy
<1>5. IsSeq(wires')
  <2>1. wires' \in Seq({y})
      BY <1>4, IsASeq
  <2> QED
      BY <2>1 DEF IsSeq
<1>6. WiresInv'
    BY <1>1, <1>3, <1>4, <1>5 DEF WiresInv
<1>7. /\ DOMAIN tabs' = BrowserToolNames /\ DOMAIN nextId' = BrowserToolNames
      /\ \A t \in BrowserToolNames : IsSeq(tabs'[t]) /\ DOMAIN tabs'[t] = {} /\ nextId'[t] = 1
    BY EmptyIsSeq DEF BrowserDestroy
<1>8. TabsInv' /\ OwnWire' /\ Numbered'
    BY <1>7 DEF TabsInv, OwnWire, Numbered
<1>9. act.pc = "idle" /\ UNCHANGED <<act, allowed, told, hits>>
    BY DEF BrowserDestroy
<1>10. ActInv'
    BY <1>9 DEF BrowserInv, ActInv
<1> QED
    BY <1>6, <1>8, <1>9, <1>10, SoundKept DEF BrowserInv

-----------------------------------------------------------------------------
(* The browser puts a message on a wire: an event, or an answer to a       *)
(* request that was still open.                                            *)
Arrives(w, m) ==
    \E y : /\ wires' = [wires EXCEPT ![w] = y] /\ DOMAIN y = WireFields
           /\ y.in = Append(wires[w].in, m) /\ y.owed \subseteq wires[w].owed

LEMMA ArrivesKeeps ==
    ASSUME BrowserInv, BrowserSound, NEW w \in DOMAIN wires, NEW m, Arrives(w, m),
           m.id = 0 \/ \E r \in wires[w].owed : m.id = r.id,
           act.pc = "receive" /\ w = Tab.client => Answered(act, Tab, m),
           UNCHANGED <<tabs, nextId, act, told, hits>>, allowed' \in BudgetType, allowed'.calls = allowed.calls
    PROVE  BrowserInv' /\ BrowserSound'
<1>0. TabsInv /\ WiresInv /\ OwnWire /\ Numbered /\ ActInv
    BY DEF BrowserInv
<1>1. PICK y : /\ wires' = [wires EXCEPT ![w] = y] /\ DOMAIN y = WireFields
               /\ y.in = Append(wires[w].in, m) /\ y.owed \subseteq wires[w].owed
    BY DEF Arrives
<1>2. PICK us, s, t, n : us = [wires EXCEPT ![w] = y] /\ s = wires[w].in /\ t = y.in /\ n = Len(s) + 1
    OBVIOUS
<1>3. IsSeq(wires) /\ IsSeq(s)
    BY <1>0, <1>2 DEF WiresInv
<1>4. IsSeq(us) /\ DOMAIN us = DOMAIN wires /\ \A j \in DOMAIN wires : us[j] = IF j = w THEN y ELSE wires[j]
    BY <1>2, <1>3, SeqSet
<1>5. Longer(s, m, t, n)
  <2>1. Added(s, m, t, n)
      BY <1>1, <1>2 DEF Added
  <2> QED
      BY <1>3, <2>1, SeqAdd
<1>6. /\ IsSeq(t) /\ DOMAIN t = DOMAIN s \cup {n} /\ (\A j \in DOMAIN s : t[j] = s[j]) /\ t[n] = m
    BY <1>5 DEF Longer
<1>7. m.id \in Nat
    BY <1>0 DEF WiresInv
<1>8. wires' = us /\ us[w] = y /\ DOMAIN wires' = DOMAIN wires
    BY <1>1, <1>2, <1>4
<1>9. TabsInv' /\ OwnWire'
    BY <1>0, <1>8 DEF TabsInv, OwnWire
<1>10. WiresInv'
  <2>1. \A k \in DOMAIN t : t[k].id \in Nat
      BY <1>0, <1>2, <1>6, <1>7 DEF WiresInv
  <2>2. \A r \in y.owed : r.id \in Nat
      BY <1>0, <1>1 DEF WiresInv
  <2>3. w # 0 /\ DOMAIN us[w] = WireFields /\ us[w].in = t
      BY <1>0, <1>1, <1>2, <1>8 DEF WiresInv
  <2>4. \A d \in DOMAIN wires : /\ d # 0 /\ DOMAIN us[d] = WireFields /\ IsSeq(us[d].in)
                                /\ \A r \in us[d].owed : r.id \in Nat
                                /\ \A k \in DOMAIN us[d].in : us[d].in[k].id \in Nat
      BY <1>0, <1>4, <1>6, <1>8, <2>1, <2>2, <2>3 DEF WiresInv
  <2> QED
      BY <1>4, <1>8, <2>4 DEF WiresInv
<1>11. Numbered'
  <2>1. SUFFICES ASSUME NEW u \in BrowserToolNames, NEW i \in DOMAIN tabs[u], NEW d, d = tabs[u][i].client, d # 0
                 PROVE  /\ \A r \in us[d].owed : r.id < nextId[u]
                        /\ \A k \in DOMAIN us[d].in : us[d].in[k].id < nextId[u]
      BY <1>8 DEF Numbered
  <2>2. d \in DOMAIN wires /\ nextId[u] \in Nat \ {0}
      BY <1>0, <2>1 DEF TabsInv
  <2>3. /\ \A r \in wires[d].owed : r.id < nextId[u]
        /\ \A k \in DOMAIN wires[d].in : wires[d].in[k].id < nextId[u]
      BY <1>0, <2>1 DEF Numbered
  <2>4. CASE d # w
      BY <1>4, <2>2, <2>3, <2>4
  <2>5. CASE d = w
    <3>1. m.id < nextId[u]
        BY <2>2, <2>3, <2>5
    <3>2. \A k \in DOMAIN t : t[k].id < nextId[u]
        BY <1>2, <1>6, <2>3, <2>5, <3>1
    <3>3. \A r \in y.owed : r.id < nextId[u]
        BY <1>1, <2>3, <2>5
    <3> QED
        BY <1>2, <1>8, <2>5, <3>2, <3>3
  <2> QED
      BY <2>4, <2>5
<1>12. ActInv'
  <2>1. Tab' = Tab
      BY DEF Tab
  <2>2. CASE act.pc # "receive"
      BY <1>0, <2>1, <2>2 DEF ActInv
  <2>3. CASE act.pc = "receive"
    <3>1. PICK c, a, tab : c = Tab.client /\ a = act /\ tab = Tab
        OBVIOUS
    <3>2. /\ \A r \in wires[c].owed : Asked(a, tab, r)
          /\ \A k \in DOMAIN wires[c].in : Answered(a, tab, wires[c].in[k])
        BY <1>0, <2>3, <3>1 DEF ActInv
    <3>3. c \in DOMAIN wires
        BY <1>0, <2>3, <3>1, TabOfCall DEF ActInv
    <3>4. /\ \A r \in us[c].owed : Asked(a, tab, r)
          /\ \A k \in DOMAIN us[c].in : Answered(a, tab, us[c].in[k])
      <4>1. CASE c # w
          BY <1>4, <3>2, <3>3, <4>1
      <4>2. CASE c = w
        <5>1. Answered(a, tab, m)
            BY <2>3, <3>1, <4>2
        <5>2. \A k \in DOMAIN t : Answered(a, tab, t[k])
            BY <1>2, <1>6, <3>2, <4>2, <5>1
        <5>3. \A r \in y.owed : Asked(a, tab, r)
            BY <1>1, <3>2, <4>2
        <5> QED
            BY <1>2, <1>8, <4>2, <5>2, <5>3
      <4> QED
          BY <4>1, <4>2
    <3>5. /\ \A r \in wires'[Tab.client].owed : Asked(act, Tab, r)
          /\ \A k \in DOMAIN wires'[Tab.client].in : Answered(act, Tab, wires'[Tab.client].in[k])
        BY <1>8, <3>1, <3>4
    <3> QED
        BY <1>0, <2>1, <2>3, <3>5 DEF ActInv
  <2> QED
      BY <2>2, <2>3
<1> QED
    BY <1>9, <1>10, <1>11, <1>12, SoundKept DEF BrowserInv

LEMMA AnswerArrives ==
    ASSUME BrowserInv, NEW w \in DOMAIN wires, NEW r, NEW kind, NEW v, Answer(w, r, kind, v),
           NEW m, m = [id |-> r.id, kind |-> kind, value |-> v]
    PROVE  Arrives(w, m)
<1>1. PICK x : x = wires[w]
    OBVIOUS
<1>2. DOMAIN x = WireFields
    BY <1>1 DEF BrowserInv, WiresInv
<1>3. PICK i, o : i = Append(x.in, m) /\ o = x.owed \ {r}
    OBVIOUS
<1>4. PICK y : y = [x EXCEPT !.in = i, !.owed = o]
    OBVIOUS
<1>5. DOMAIN y = WireFields /\ y.in = i /\ y.owed = o
    BY <1>2, <1>4 DEF WireFields
<1>6. wires' = [wires EXCEPT ![w] = y]
  <2>1. PICK x1 : x1 = [x EXCEPT !.in = i]
      OBVIOUS
  <2>2. x1.owed = x.owed
      BY <1>2, <2>1 DEF WireFields
  <2>3. y = [x1 EXCEPT !.owed = o]
      BY <1>2, <1>4, <2>1
  <2>4. PICK ws : ws = [wires EXCEPT ![w] = x1]
      OBVIOUS
  <2>5. ws = [wires EXCEPT ![w].in = Append(@, m)]
      BY <1>1, <1>3, <2>1, <2>4
  <2>6. ws[w] = x1
      BY <2>4
  <2>7. wires' = [ws EXCEPT ![w].owed = @ \ {r}]
      BY <2>5 DEF Answer
  <2>8. wires' = [ws EXCEPT ![w] = y]
      BY <1>3, <2>2, <2>3, <2>6, <2>7
  <2> QED
      BY <2>4, <2>8
<1> QED
    BY <1>1, <1>3, <1>5, <1>6 DEF Arrives

LEMMA AnswerKeeps ==
    ASSUME BrowserInv, BrowserSound, NEW w \in DOMAIN wires, NEW r \in wires[w].owed, NEW kind, NEW v,
           Answer(w, r, kind, v), UNCHANGED <<tabs, nextId, act, told, hits>>,
           UNCHANGED allowed \/ Spend("faults"),
           kind = "result" /\ act.pc = "receive" /\ Asked(act, Tab, r) /\ r.id = act.id => Fitting(act, Tab, v)
    PROVE  BrowserInv' /\ BrowserSound'
<1>1. PICK m : m = [id |-> r.id, kind |-> kind, value |-> v]
    OBVIOUS
<1>2. m.id = r.id /\ m.kind = kind /\ m.value = v
    BY <1>1
<1>3. Arrives(w, m)
    BY <1>1, AnswerArrives
<1>4. ASSUME act.pc = "receive", w = Tab.client PROVE Answered(act, Tab, m)
  <2>1. Asked(act, Tab, r)
      BY <1>4 DEF BrowserInv, ActInv
  <2> QED
      BY <1>2, <1>4, <2>1 DEF Answered
<1>5. allowed' \in BudgetType /\ allowed'.calls = allowed.calls
  <2>1. allowed \in BudgetType
      BY DEF BrowserInv, ActInv
  <2> QED
      BY <2>1, SpendKeeps
<1> QED
    BY <1>2, <1>3, <1>4, <1>5, ArrivesKeeps

(* What the browser evaluates for a request of the call in progress is     *)
(* read off the page of the call's session, which the cdp session names.   *)
LEMMA EvaluatedFits ==
    ASSUME BrowserInv, act.pc = "receive", NEW w, w # 0, NEW r, r.id = act.id, Asked(act, Tab, r), r.cdp.wire = w,
           NEW ready, NEW bytes, NEW v, v = Evaluated(r, ready, bytes), r.stage # "attach"
    PROVE  Fitting(act, Tab, v)
<1>1. /\ r.stage = act.stage /\ r.selector = act.selector /\ r.cdp = Tab.cdp
    BY DEF Asked
<1>2. GoodTab(Tab) /\ act.from = allowed.calls
    BY TabOfCall
<1>3. r.cdp.target = Tab.target
    BY <1>1, <1>2 DEF GoodTab
<1>4. PICK t, u : t = r.cdp.target /\ u = pages[t]
    OBVIOUS
<1>5. PICK z, refs, hit, seen : /\ z = NoValue /\ refs = Listing(u)
                                /\ hit = QuerySelector(ElementsOf(u), r.selector)
                                /\ seen = [target |-> t, url |-> u, call |-> allowed.calls]
    OBVIOUS
<1>6. v = [z EXCEPT !.ready = ready, !.bytes = bytes, !.refs = refs, !.hit = hit, !.seen = seen]
    BY <1>4, <1>5 DEF Evaluated
<1>7. DOMAIN z = {"target", "cdp", "ready", "refs", "hit", "bytes", "seen"}
    BY <1>5 DEF NoValue
<1>8. v.refs = refs /\ v.hit = hit /\ v.seen = seen
    BY <1>6, <1>7
<1>9. v.seen.target = t /\ v.seen.url = u /\ v.seen.call = allowed.calls
    BY <1>5, <1>8
<1> QED
    BY <1>1, <1>2, <1>3, <1>4, <1>5, <1>8, <1>9 DEF Fitting

LEMMA AnswersKeep ==
    ASSUME BrowserInv, BrowserSound, NEW w \in DOMAIN wires, NEW r \in wires[w].owed, BrowserAnswers(w, r)
    PROVE  BrowserInv' /\ BrowserSound'
<1>1. UNCHANGED <<tabs, nextId, act, told, hits>>
    BY DEF BrowserAnswers
<1>2. w # 0
    BY DEF BrowserInv, WiresInv
<1>3. ASSUME NEW kind, NEW v, Answer(w, r, kind, v), UNCHANGED allowed \/ Spend("faults"),
             kind # "result" \/ r.stage \in {"create", "close", "navigate"}
      PROVE  BrowserInv' /\ BrowserSound'
  <2>1. ASSUME kind = "result", Asked(act, Tab, r), r.id = act.id PROVE Fitting(act, Tab, v)
      BY <1>3, <2>1 DEF Asked, Fitting, Reading
  <2> QED
      BY <1>1, <1>3, <2>1, AnswerKeeps
<1>4. CASE /\ r.stage = "create" /\ UNCHANGED allowed
           /\ Answer(w, r, "result", [NoValue EXCEPT !.target = Len(pages) + 1])
    BY <1>3, <1>4
<1>5. CASE /\ r.stage = "attach" /\ UNCHANGED allowed
           /\ \E kind : Answer(w, r, kind, [NoValue EXCEPT !.cdp = [wire |-> w, target |-> r.target]])
  <2>1. PICK kind : Answer(w, r, kind, [NoValue EXCEPT !.cdp = [wire |-> w, target |-> r.target]])
      BY <1>5
  <2>2. PICK e, z, v : e = [wire |-> w, target |-> r.target] /\ z = NoValue /\ v = [z EXCEPT !.cdp = e]
      OBVIOUS
  <2>3. v.cdp = e /\ e.target = r.target
      BY <2>2 DEF NoValue
  <2>4. ASSUME Asked(act, Tab, r), r.id = act.id PROVE Fitting(act, Tab, v)
      BY <1>5, <2>3, <2>4 DEF Asked, Fitting, Reading
  <2>5. Answer(w, r, kind, v)
      BY <2>1, <2>2
  <2> QED
      BY <1>1, <1>5, <2>4, <2>5, AnswerKeeps
<1>6. CASE r.stage = "close" /\ UNCHANGED allowed /\ \E kind : Answer(w, r, kind, NoValue)
    BY <1>3, <1>6
<1>7. CASE r.stage = "navigate" /\ UNCHANGED allowed /\ Answer(w, r, "result", NoValue)
    BY <1>3, <1>7
<1>8. CASE /\ r.stage \notin {"create", "attach", "close", "navigate"} /\ r.cdp.wire = w /\ UNCHANGED allowed
           /\ \E kind, ready, bytes : Answer(w, r, kind, Evaluated(r, ready, bytes))
  <2>1. PICK kind, ready, bytes : Answer(w, r, kind, Evaluated(r, ready, bytes))
      BY <1>8
  <2>2. PICK v : v = Evaluated(r, ready, bytes)
      OBVIOUS
  <2>3. ASSUME act.pc = "receive", Asked(act, Tab, r), r.id = act.id PROVE Fitting(act, Tab, v)
      BY <1>2, <1>8, <2>2, <2>3, EvaluatedFits
  <2>4. Answer(w, r, kind, v)
      BY <2>1, <2>2
  <2> QED
      BY <1>1, <1>8, <2>3, <2>4, AnswerKeeps
<1>9. CASE UNCHANGED allowed /\ Answer(w, r, "error", NoValue)
    BY <1>3, <1>9
<1>10. CASE \E kind \in {"error", "void"} : Answer(w, r, kind, NoValue) /\ Spend("faults")
    BY <1>3, <1>10
<1> QED
  <2>1. \/ /\ r.stage = "create" /\ UNCHANGED allowed
           /\ Answer(w, r, "result", [NoValue EXCEPT !.target = Len(pages) + 1])
        \/ /\ r.stage = "attach" /\ UNCHANGED allowed
           /\ \E kind : Answer(w, r, kind, [NoValue EXCEPT !.cdp = [wire |-> w, target |-> r.target]])
        \/ r.stage = "close" /\ UNCHANGED allowed /\ \E kind : Answer(w, r, kind, NoValue)
        \/ r.stage = "navigate" /\ UNCHANGED allowed /\ Answer(w, r, "result", NoValue)
        \/ /\ r.stage \notin {"create", "attach", "close", "navigate"} /\ r.cdp.wire = w /\ UNCHANGED allowed
           /\ \E kind, ready, bytes : Answer(w, r, kind, Evaluated(r, ready, bytes))
        \/ UNCHANGED allowed /\ Answer(w, r, "error", NoValue)
        \/ \E kind \in {"error", "void"} : Answer(w, r, kind, NoValue) /\ Spend("faults")
      BY Zenon DEF BrowserAnswers
  <2> QED
      BY <1>4, <1>5, <1>6, <1>7, <1>8, <1>9, <1>10, <2>1

LEMMA EventKeeps ==
    ASSUME BrowserInv, BrowserSound, NEW w \in DOMAIN wires, BrowserEvent(w)
    PROVE  BrowserInv' /\ BrowserSound'
<1>1. PICK kind \in {"result", "bad"} :
          /\ Spend(IF kind = "bad" THEN "faults" ELSE "events")
          /\ wires' = [wires EXCEPT ![w].in = Append(@, [id |-> 0, kind |-> kind, value |-> NoValue])]
    BY DEF BrowserEvent
<1>2. UNCHANGED <<tabs, nextId, act, told, hits>>
    BY DEF BrowserEvent
<1>3. PICK m : m = [id |-> 0, kind |-> kind, value |-> NoValue]
    OBVIOUS
<1>4. PICK x, i : x = wires[w] /\ i = Append(x.in, m)
    OBVIOUS
<1>5. DOMAIN x = WireFields
    BY <1>4 DEF BrowserInv, WiresInv
<1>6. PICK y : y = [x EXCEPT !.in = i]
    OBVIOUS
<1>7. DOMAIN y = WireFields /\ y.in = i /\ y.owed = x.owed
    BY <1>5, <1>6 DEF WireFields
<1>8. wires' = [wires EXCEPT ![w] = y]
    BY <1>1, <1>3, <1>4, <1>6
<1>9. Arrives(w, m)
    BY <1>4, <1>7, <1>8 DEF Arrives
<1>10. m.id = 0
    BY <1>3
<1>11. act.pc = "receive" => Answered(act, Tab, m)
    BY <1>10 DEF Answered, BrowserInv, ActInv
<1>12. allowed' \in BudgetType /\ allowed'.calls = allowed.calls
  <2>1. PICK f \in {"events", "faults", "polls", "moves"} : Spend(f)
      BY <1>1
  <2> QED
      BY <2>1, SpendKeeps DEF BrowserInv, ActInv
<1> QED
    BY <1>2, <1>9, <1>10, <1>11, <1>12, ArrivesKeeps

(* A websocket that breaks loses what it holds, whoever has it.            *)
LEMMA BreakKeeps ==
    ASSUME BrowserInv, BrowserSound, NEW w \in DOMAIN wires, WireBreaks(w)
    PROVE  BrowserInv' /\ BrowserSound'
<1>1. UNCHANGED <<tabs, nextId, act, told, hits>> /\ Spend("faults") /\ wires' = HangUp(wires, w)
    BY DEF WireBreaks
<1>2. PICK vs : vs = wires
    OBVIOUS
<1>3. Sub(HangUp(vs, w), wires)
    BY <1>2, SubSame, SubHangUp DEF BrowserInv
<1>4. Sub(wires', wires)
    BY <1>1, <1>2, <1>3
<1>5. allowed' \in BudgetType /\ allowed'.calls = allowed.calls
    BY <1>1, SpendKeeps DEF BrowserInv, ActInv
<1>6. DOMAIN tabs' = BrowserToolNames /\
      \A u \in BrowserToolNames :
               /\ IsSeq(tabs'[u])
               /\ \A j \in DOMAIN tabs'[u] :
                     /\ GoodTab(tabs'[u][j])
                     /\ \/ tabs'[u][j].client = 0
                        \/ j \in DOMAIN tabs[u] /\ tabs'[u][j].client = tabs[u][j].client
    BY <1>1 DEF BrowserInv, TabsInv
<1>7. TabsInv' /\ WiresInv' /\ OwnWire' /\ Numbered'
    BY <1>1, <1>4, <1>6, TabsShrink
<1>8. ActInv'
  <2>1. Tab' = Tab /\ ActInv
      BY <1>1 DEF Tab, BrowserInv
  <2>2. CASE act.pc # "receive"
      BY <1>1, <1>5, <2>1, <2>2 DEF ActInv
  <2>3. CASE act.pc = "receive"
    <3>1. PICK c, a, tab : c = Tab.client /\ a = act /\ tab = Tab
        OBVIOUS
    <3>2. /\ \A r \in wires[c].owed : Asked(a, tab, r)
          /\ \A k \in DOMAIN wires[c].in : Answered(a, tab, wires[c].in[k])
        BY <2>1, <2>3, <3>1 DEF ActInv
    <3>3. c \in DOMAIN wires
        BY <2>1, <2>3, <3>1, TabOfCall DEF ActInv
    <3>4. /\ \A r \in wires'[c].owed : Asked(a, tab, r)
          /\ \A k \in DOMAIN wires'[c].in : Answered(a, tab, wires'[c].in[k])
        BY <1>4, <3>2, <3>3 DEF Sub
    <3>5. /\ \A r \in wires'[Tab.client].owed : Asked(act, Tab, r)
          /\ \A k \in DOMAIN wires'[Tab.client].in : Answered(act, Tab, wires'[Tab.client].in[k])
        BY <3>1, <3>4
    <3> QED
        BY <1>1, <1>5, <2>1, <2>3, <3>5 DEF ActInv
  <2> QED
      BY <2>2, <2>3
<1> QED
    BY <1>1, <1>7, <1>8, SoundKept DEF BrowserInv

LEMMA NothingChanges ==
    ASSUME BrowserInv, BrowserSound, UNCHANGED <<tabs, nextId, act, wires, told, hits>>,
           allowed' \in BudgetType, allowed'.calls = allowed.calls
    PROVE  BrowserInv' /\ BrowserSound'
<1>1. Tab' = Tab /\ ActInv
    BY DEF Tab, BrowserInv
<1>2. ActInv'
    BY <1>1 DEF ActInv
<1> QED
    BY <1>2, TabsSame, SoundKept DEF BrowserInv

(* A call of a browser tool reads from and acts on the page of its own     *)
(* session, for any calls, settings, sites, faults and number of messages  *)
(* looked at: the numbers of a tool's requests only grow until the tool is *)
(* destroyed, and no two sessions share a websocket.                       *)
THEOREM BrowserSoundHolds == BrowsingSpec => []BrowserSound
<1>1. BrowserInit => BrowserInv /\ BrowserSound
  <2> SUFFICES ASSUME BrowserInit PROVE BrowserInv /\ BrowserSound
      OBVIOUS
  <2>1. /\ DOMAIN tabs = BrowserToolNames /\ DOMAIN nextId = BrowserToolNames
        /\ \A t \in BrowserToolNames : IsSeq(tabs[t]) /\ DOMAIN tabs[t] = {} /\ nextId[t] = 1
      BY EmptyIsSeq DEF BrowserInit
  <2>2. IsSeq(wires) /\ DOMAIN wires = {} /\ told = {} /\ hits = {}
      BY EmptyIsSeq DEF BrowserInit
  <2>3. DOMAIN act = ActFields /\ act.pc = "idle" /\ allowed \in BudgetType
      BY BrowserAssumption DEF BrowserInit, NoAct, ActFields, BudgetType
  <2>4. TabsInv /\ OwnWire /\ Numbered
      BY <2>1 DEF TabsInv, OwnWire, Numbered
  <2>5. WiresInv /\ ActInv
      BY <2>2, <2>3 DEF WiresInv, ActInv
  <2> QED
      BY <2>2, <2>4, <2>5 DEF BrowserInv, BrowserSound, ReportsOwnPage, ClickHitsListed
<1>2. BrowserInv /\ BrowserSound /\ [BrowserNext]_browserVars => BrowserInv' /\ BrowserSound'
  <2> SUFFICES ASSUME BrowserInv, BrowserSound, [BrowserNext]_browserVars PROVE BrowserInv' /\ BrowserSound'
      OBVIOUS
  <2>1. DOMAIN wires = 1..Len(wires) /\ allowed \in BudgetType
      BY SeqDomain DEF BrowserInv, WiresInv, ActInv
  <2>2. CASE \E args \in BrowserCalls : Invoke(args)
      BY <2>2, InvokeKeeps
  <2>3. CASE \E found \in Discoveries, up \in BOOLEAN : SessionConnect(found, up)
      BY <2>3, ConnectKeeps
  <2>4. CASE CdpSend
      BY <2>4, CdpSendKeeps
  <2>5. CASE CdpReceive
      BY <2>5, CdpReceiveKeeps
  <2>6. CASE CdpReceiveFails
      BY <2>6, CdpReceiveFailsKeeps
  <2>7. CASE BrowserDestroy
      BY <2>7, DestroyKeeps
  <2>8. CASE \E w \in 1..Len(wires) : \E request \in wires[w].owed : BrowserAnswers(w, request)
      BY <2>1, <2>8, AnswersKeep
  <2>9. CASE \E w \in 1..Len(wires) : BrowserEvent(w) \/ WireBreaks(w)
      BY <2>1, <2>9, EventKeeps, BreakKeeps
  <2>10. CASE \E t \in 1..Len(pages), url \in DOMAIN Sites \ {"about:blank"} : PageMoves(t, url)
    <3>1. UNCHANGED <<tabs, nextId, act, wires, told, hits>> /\ Spend("moves")
        BY <2>10 DEF PageMoves
    <3> QED
        BY <2>1, <3>1, SpendKeeps, NothingChanges
  <2>11. CASE UNCHANGED browserVars
      BY <2>1, <2>11, NothingChanges DEF browserVars
  <2> QED
      BY <2>2, <2>3, <2>4, <2>5, <2>6, <2>7, <2>8, <2>9, <2>10, <2>11 DEF BrowserNext
<1> QED
    BY <1>1, <1>2, PTL DEF BrowsingSpec

----------------------------------------------------------------------------
(***************************************************************************)
(* The providers.  RetriesSound says how many requests a call may have     *)
(* sent, and not what it may still send.  CallSound adds, for every phase, *)
(* how much of each loop is used up, that a provider whose turn has not    *)
(* come was sent nothing, that an attempt is only repeated after an error  *)
(* that is not final, and that an asynchronous call has no loop at all.    *)
(***************************************************************************)
UnderWay == {"call", "post", "process", "stream", "transfer", "chunks", "receiving"}
Answering == {"chunks", "receiving"}

CallParts ==
    {"phase", "q", "mode", "direct", "cand", "tries", "outer", "inner", "last", "s", "times"}

(* How many requests one attempt of the chain may take.                    *)
PerAttempt(i) == (chain[i].retries + 1) * (chain[i].retries + 1)

ChainBuilt ==
    /\ boot \in {"none", "ok", "security_denied", "invalid_argument", "unsupported"}
    /\ setup \in Setups
    /\ boot = "ok" => /\ DOMAIN chain = DOMAIN setup.options
                      /\ \A i \in DOMAIN chain : chain[i].retries \in Nat

(* The parts of a call that has not returned, and what it has sent.        *)
CallHas(c, n) ==
    /\ CallParts \subseteq DOMAIN c /\ {"count", "after"} \subseteq DOMAIN n
    /\ c.cand \subseteq DOMAIN chain /\ c.cand # {} /\ c.tries \in 0..ReliableRetries
    /\ n.count \in [DOMAIN chain -> Nat] /\ n.after \cap Permanent = {}
    /\ \A i \in DOMAIN chain : n.count[i] <= (ReliableRetries + 1) * PerAttempt(i)

(* An asynchronous call has one provider and one attempt.                  *)
DirectCall(c, n) ==
    c.direct => /\ setup.shape = "single" /\ c.cand = {1} /\ chain[1].kind \notin ProcessKinds
                /\ \A i \in DOMAIN chain : n.count[i] <= 1

(* A provider whose turn has not come was sent nothing.                    *)
OthersUnsent(c, n) == \A i \in c.cand : i # Current(c) => n.count[i] = 0

(* An attempt under way.                                                   *)
AttemptOn(c, n) ==
    LET i == Current(c)
    IN  /\ c.phase \in UnderWay /\ c.times = 0 /\ c.last \notin Permanent
        /\ OthersUnsent(c, n)
        /\ c.outer \in 0..chain[i].retries /\ c.inner \in 0..chain[i].retries
        /\ c.phase # "post" => c.outer = 0 /\ c.inner = 0
        /\ c.phase \in Answering => n.count[i] <= (c.tries + 1) * PerAttempt(i)
        /\ c.phase \notin Answering =>
              n.count[i] <= c.tries * PerAttempt(i) + c.outer * (chain[i].retries + 1) + c.inner
        /\ c.direct => /\ c.phase \in {"call", "transfer", "receiving"}
                       /\ c.phase # "receiving" => \A k \in DOMAIN chain : n.count[k] = 0

CallUnderWay(c, n) == CallHas(c, n) /\ DirectCall(c, n) /\ AttemptOn(c, n)

CallEnded(c, n) ==
    CallHas(c, n) /\ DirectCall(c, n) /\ c.phase = "ended" /\ c.times = 1

(* Between calls the record of the last one stays.                         *)
NoCall(c, n) ==
    /\ c = Idle /\ {"count", "after"} \subseteq DOMAIN n
    /\ n.after \cap Permanent = {}
    /\ DOMAIN n.count \subseteq (IF boot = "ok" THEN DOMAIN chain ELSE {})
    /\ \A i \in DOMAIN n.count : n.count[i] <= (ReliableRetries + 1) * PerAttempt(i)

CallSound ==
    /\ ChainBuilt
    /\ \/ boot = "ok" /\ CallUnderWay(call, sent)
       \/ boot = "ok" /\ CallEnded(call, sent)
       \/ NoCall(call, sent)

(* The attempt is over: what it may have sent.                             *)
AttemptOver(c, n) ==
    /\ CallHas(c, n) /\ DirectCall(c, n) /\ OthersUnsent(c, n) /\ c.times = 0
    /\ n.count[Current(c)] <= (c.tries + 1) * PerAttempt(Current(c))

----------------------------------------------------------------------------
(* Arithmetic of the nested loops.                                         *)
LEMMA OneMoreAttempt ==
    ASSUME NEW t \in Nat, NEW r \in Nat, t <= r, NEW a \in Nat
    PROVE  /\ (t + 1) * a \in Nat /\ (t + 1) * a = t * a + a /\ (t + 1) * a <= (r + 1) * a
           /\ t * a \in Nat /\ 0 * a = 0
<1>1. (t + 1) * a = t * a + a /\ t * a \in Nat
    OBVIOUS
<1>2. PICK d \in Nat : r = t + d
    OBVIOUS
<1>3. (r + 1) * a = (t + 1) * a + d * a /\ d * a \in Nat
    BY <1>2
<1> QED
    BY <1>1, <1>3

LEMMA OneMoreRound ==
    ASSUME NEW k \in Nat, NEW o \in 0..k, NEW n \in 0..k
    PROVE  /\ o * (k + 1) \in Nat /\ (k + 1) * (k + 1) \in Nat
           /\ o * (k + 1) + n + 1 <= (k + 1) * (k + 1)
           /\ (o + 1) * (k + 1) = o * (k + 1) + (k + 1)
           /\ 0 * (k + 1) = 0
           /\ 1 <= (k + 1) * (k + 1)
<1>1. o * (k + 1) \in Nat /\ (k + 1) * (k + 1) \in Nat /\ (o + 1) * (k + 1) = o * (k + 1) + (k + 1)
    OBVIOUS
<1>2. (o + 1) * (k + 1) <= (k + 1) * (k + 1)
    BY OneMoreAttempt
<1> QED
    BY <1>1, <1>2

LEMMA CurrentIn ==
    ASSUME ChainBuilt, boot = "ok", NEW c, NEW n, CallHas(c, n)
    PROVE  /\ Current(c) \in c.cand /\ Current(c) \in DOMAIN chain
           /\ DOMAIN chain \subseteq Nat /\ 1 \in DOMAIN chain
           /\ chain[Current(c)].retries \in Nat /\ PerAttempt(Current(c)) \in Nat
           /\ \A i \in DOMAIN chain : PerAttempt(i) \in Nat
<1>1. DOMAIN chain \subseteq Nat /\ 1 \in DOMAIN chain
    BY SetupsBuilt DEF ChainBuilt
<1>2. c.cand \subseteq Nat /\ c.cand # {}
    BY <1>1 DEF CallHas
<1>3. Current(c) \in c.cand
    BY <1>2, SmallestOf DEF Current
<1>4. Current(c) \in DOMAIN chain
    BY <1>3 DEF CallHas
<1>5. ASSUME NEW i \in DOMAIN chain PROVE PerAttempt(i) \in Nat
  <2>1. chain[i].retries \in Nat
      BY DEF ChainBuilt
  <2> QED
      BY <2>1 DEF PerAttempt
<1> QED
    BY <1>1, <1>3, <1>4, <1>5 DEF ChainBuilt

LEMMA ConcludeSound ==
    ASSUME ChainBuilt, boot = "ok", NEW c, NEW n, AttemptOver(c, n), NEW st
    PROVE  CallUnderWay(Conclude(c, st), n) \/ CallEnded(Conclude(c, st), n)
<1> DEFINE ended == [c EXCEPT !.phase = "ended", !.last = st, !.times = @ + 1]
           again == [c EXCEPT !.phase = "call", !.outer = 0, !.inner = 0, !.last = st]
           tryAgain == [again EXCEPT !.tries = @ + 1]
           goOn == [again EXCEPT !.cand = @ \ {Current(c)}, !.tries = 0]
<1>1. \/ Conclude(c, st) = ended
      \/ /\ setup.shape = "reliable" /\ ShouldRetry(st, 0) /\ c.tries < ReliableRetries
         /\ Conclude(c, st) = tryAgain
      \/ /\ setup.shape = "reliable" /\ st \notin Permanent /\ c.cand # {Current(c)}
         /\ Conclude(c, st) = goOn
    BY Zenon DEF Conclude, AttemptLeft
<1>2. CASE Conclude(c, st) = ended
  <2>1. /\ CallParts \subseteq DOMAIN ended /\ ended.cand = c.cand /\ ended.tries = c.tries
        /\ ended.direct = c.direct /\ ended.phase = "ended" /\ ended.times = 1
      BY DEF AttemptOver, CallHas, CallParts
  <2> HIDE DEF ended
  <2>2. CallEnded(ended, n)
      BY <2>1 DEF CallEnded, CallHas, DirectCall, AttemptOver
  <2> QED
      BY <1>2, <2>2
<1>3. CASE /\ setup.shape = "reliable" /\ ShouldRetry(st, 0) /\ c.tries < ReliableRetries
           /\ Conclude(c, st) = tryAgain
  <2>1. /\ CallParts \subseteq DOMAIN tryAgain /\ tryAgain.cand = c.cand /\ tryAgain.tries = c.tries + 1
        /\ tryAgain.direct = c.direct /\ tryAgain.phase = "call" /\ tryAgain.times = c.times
        /\ tryAgain.outer = 0 /\ tryAgain.inner = 0 /\ tryAgain.last = st
      BY DEF AttemptOver, CallHas, CallParts
  <2> HIDE DEF tryAgain
  <2>2. st \notin Permanent
      BY <1>3 DEF ShouldRetry, Permanent
  <2>3. Current(tryAgain) = Current(c)
      BY <2>1 DEF Current
  <2>4. c.tries \in Nat /\ c.tries + 1 \in 0..ReliableRetries
      BY <1>3, SetupsBuilt DEF AttemptOver, CallHas
  <2>5. ~c.direct
      BY <1>3 DEF AttemptOver, DirectCall
  <2>6. CallHas(tryAgain, n) /\ DirectCall(tryAgain, n)
      BY <2>1, <2>4, <2>5 DEF AttemptOver, CallHas, DirectCall
  <2>7. AttemptOn(tryAgain, n)
    <3>1. chain[Current(c)].retries \in Nat /\ PerAttempt(Current(c)) \in Nat
        BY CurrentIn DEF AttemptOver
    <3>2. n.count[Current(c)] <= (c.tries + 1) * PerAttempt(Current(c))
        BY DEF AttemptOver
    <3>3. /\ (c.tries + 1) * PerAttempt(Current(c)) \in Nat
          /\ 0 * (chain[Current(c)].retries + 1) = 0
        BY <2>4, <3>1, OneMoreAttempt
    <3>4. n.count[Current(c)] <= (c.tries + 1) * PerAttempt(Current(c)) + 0 * (chain[Current(c)].retries + 1) + 0
        BY <3>2, <3>3
    <3>5. OthersUnsent(tryAgain, n) /\ c.times = 0
        BY <2>1, <2>3 DEF AttemptOver, OthersUnsent
    <3>6. 0 \in 0..chain[Current(c)].retries
        BY <3>1
    <3> QED
        BY <2>1, <2>2, <2>3, <2>5, <3>4, <3>5, <3>6 DEF AttemptOn, UnderWay, Answering
  <2> QED
      BY <1>3, <2>6, <2>7 DEF CallUnderWay
<1>4. CASE /\ setup.shape = "reliable" /\ st \notin Permanent /\ c.cand # {Current(c)}
           /\ Conclude(c, st) = goOn
  <2>1. /\ CallParts \subseteq DOMAIN goOn /\ goOn.cand = c.cand \ {Current(c)} /\ goOn.tries = 0
        /\ goOn.direct = c.direct /\ goOn.phase = "call" /\ goOn.times = c.times
        /\ goOn.outer = 0 /\ goOn.inner = 0 /\ goOn.last = st
      BY DEF AttemptOver, CallHas, CallParts
  <2> HIDE DEF goOn
  <2>2. Current(c) \in c.cand
      BY CurrentIn DEF AttemptOver
  <2>3. ~c.direct
      BY <1>4 DEF AttemptOver, DirectCall
  <2>4. CallHas(goOn, n) /\ DirectCall(goOn, n)
      BY <1>4, <2>1, <2>2, <2>3, SetupsBuilt DEF AttemptOver, CallHas, DirectCall
  <2>5. /\ Current(goOn) \in goOn.cand /\ chain[Current(goOn)].retries \in Nat
        /\ PerAttempt(Current(goOn)) \in Nat
      BY <2>4, CurrentIn
  <2>6. AttemptOn(goOn, n)
    <3>1. \A i \in goOn.cand : n.count[i] = 0
        BY <2>1 DEF AttemptOver, OthersUnsent
    <3>2. OthersUnsent(goOn, n) /\ n.count[Current(goOn)] = 0 /\ c.times = 0
        BY <2>5, <3>1 DEF OthersUnsent, AttemptOver
    <3>3. 0 * PerAttempt(Current(goOn)) = 0 /\ 0 * (chain[Current(goOn)].retries + 1) = 0
        BY <2>5
    <3>4. 0 <= 0 * PerAttempt(Current(goOn)) + 0 * (chain[Current(goOn)].retries + 1) + 0
        BY <3>3
    <3>5. 0 \in 0..chain[Current(goOn)].retries
        BY <2>5
    <3> QED
        BY <1>4, <2>1, <2>3, <3>2, <3>4, <3>5 DEF AttemptOn, UnderWay, Answering
  <2> QED
      BY <1>4, <2>4, <2>6 DEF CallUnderWay
<1> QED
    BY <1>1, <1>2, <1>3, <1>4

(* A step of the call leaves the chain alone.                              *)
LEMMA ChainKept ==
    ASSUME ChainBuilt, boot = "ok", UNCHANGED <<boot, setup, chain>>,
           CallUnderWay(call', sent') \/ CallEnded(call', sent')
    PROVE  CallSound'
<1>1. ChainBuilt'
    BY DEF ChainBuilt
<1>2. ASSUME NEW c, NEW n
      PROVE  CallHas(c, n) /\ DirectCall(c, n) =>
               /\ CallParts \subseteq DOMAIN c /\ {"count", "after"} \subseteq DOMAIN n
               /\ c.cand \subseteq DOMAIN chain' /\ c.cand # {} /\ c.tries \in 0..ReliableRetries
               /\ n.count \in [DOMAIN chain' -> Nat] /\ n.after \cap Permanent = {}
               /\ \A i \in DOMAIN chain' : n.count[i] <= (ReliableRetries + 1) * PerAttempt(i)'
               /\ c.direct => /\ setup'.shape = "single" /\ c.cand = {1} /\ chain'[1].kind \notin ProcessKinds
                              /\ \A i \in DOMAIN chain' : n.count[i] <= 1
    BY DEF CallHas, DirectCall, PerAttempt
<1>3. CASE CallEnded(call', sent')
  <2>1. CallEnded(call, sent)'
      BY <1>2, <1>3 DEF CallEnded, CallHas, DirectCall
  <2> QED
      BY <1>1, <2>1 DEF CallSound
<1>4. CASE CallUnderWay(call', sent')
  <2>1. (CallHas(call, sent) /\ DirectCall(call, sent))'
      BY <1>2, <1>4 DEF CallUnderWay, CallHas, DirectCall
  <2>2. AttemptOn(call, sent)'
      BY <1>4 DEF CallUnderWay, AttemptOn, OthersUnsent, Current, PerAttempt
  <2> QED
      BY <1>1, <2>1, <2>2 DEF CallSound, CallUnderWay
<1> QED
    BY <1>3, <1>4

(* What CallSound says of a call in a phase.                               *)
LEMMA PhaseIs ==
    ASSUME CallSound
    PROVE  /\ call.phase \in UnderWay => boot = "ok" /\ CallUnderWay(call, sent)
           /\ call.phase = "ended" => boot = "ok" /\ CallEnded(call, sent)
           /\ call.phase = "idle" => NoCall(call, sent)
<1>1. Idle.phase = "idle"
    BY DEF Idle
<1> QED
    BY <1>1 DEF CallSound, CallUnderWay, AttemptOn, CallEnded, NoCall, UnderWay

(* An attempt ends without a request, or after its answer.                 *)
LEMMA AttemptEnds ==
    ASSUME ChainBuilt, boot = "ok", NEW c, NEW n, CallUnderWay(c, n), c.phase = "call" \/ c.phase \in Answering
    PROVE  AttemptOver(c, n)
<1>1. /\ Current(c) \in DOMAIN chain /\ chain[Current(c)].retries \in Nat /\ PerAttempt(Current(c)) \in Nat
    BY CurrentIn DEF CallUnderWay
<1>2. c.tries \in Nat /\ n.count[Current(c)] \in Nat
    BY <1>1, SetupsBuilt DEF CallUnderWay, CallHas
<1>3. /\ (c.tries + 1) * PerAttempt(Current(c)) = c.tries * PerAttempt(Current(c)) + PerAttempt(Current(c))
      /\ c.tries * PerAttempt(Current(c)) \in Nat
    BY <1>1, <1>2, OneMoreAttempt
<1>4. n.count[Current(c)] <= (c.tries + 1) * PerAttempt(Current(c))
  <2>1. CASE c.phase \in Answering
      BY <2>1 DEF CallUnderWay, AttemptOn
  <2>2. CASE c.phase = "call"
    <3>1. n.count[Current(c)] <= c.tries * PerAttempt(Current(c)) + 0 * (chain[Current(c)].retries + 1) + 0
        BY <2>2 DEF CallUnderWay, AttemptOn, Answering
    <3>2. 0 * (chain[Current(c)].retries + 1) = 0
        BY <1>1
    <3> QED
        BY <1>1, <1>2, <1>3, <3>1, <3>2
  <2> QED
      BY <2>1, <2>2
<1> QED
    BY <1>4 DEF AttemptOver, CallUnderWay, AttemptOn

(* A request goes out: it is within the attempt's share.                   *)
OneSent == \E code : Send(code)

LEMMA SendSound ==
    ASSUME ChainBuilt, boot = "ok", CallUnderWay(call, sent), call.phase \notin Answering, OneSent,
           call.direct => call.phase = "transfer"
    PROVE  /\ AttemptOver(call, sent')
           /\ sent'.count[Current(call)] <= call.tries * PerAttempt(Current(call))
                + call.outer * (chain[Current(call)].retries + 1) + call.inner + 1
<1> DEFINE i == Current(call)
           k == chain[i].retries
           a == PerAttempt(i)
<1>1. i \in call.cand /\ i \in DOMAIN chain /\ k \in Nat /\ a \in Nat /\ \A j \in DOMAIN chain : PerAttempt(j) \in Nat
    BY CurrentIn DEF CallUnderWay
<1>2. call.outer \in 0..k /\ call.inner \in 0..k /\ call.tries \in 0..ReliableRetries /\ ReliableRetries \in Nat
    BY SetupsBuilt DEF CallUnderWay, AttemptOn, CallHas
<1>3. sent.count \in [DOMAIN chain -> Nat]
    BY DEF CallUnderWay, CallHas
<1>4. /\ {"count", "after"} \subseteq DOMAIN sent' /\ sent'.count = [sent.count EXCEPT ![i] = @ + 1]
      /\ sent'.after = sent.after \cup {call.last}
    BY DEF OneSent, Send
<1>5. /\ sent'.count \in [DOMAIN chain -> Nat] /\ sent'.count[i] = sent.count[i] + 1
      /\ \A j \in DOMAIN chain : j # i => sent'.count[j] = sent.count[j]
    BY <1>1, <1>3, <1>4
<1>6. sent.count[i] <= call.tries * a + call.outer * (k + 1) + call.inner
    BY DEF CallUnderWay, AttemptOn
<1>7. a = (k + 1) * (k + 1)
    BY DEF PerAttempt
<1> HIDE DEF i, k, a
<1>8. /\ call.outer * (k + 1) \in Nat /\ call.outer * (k + 1) + call.inner + 1 <= a
    BY <1>1, <1>2, <1>7, OneMoreRound
<1>9. /\ (call.tries + 1) * a = call.tries * a + a /\ call.tries * a \in Nat
      /\ (call.tries + 1) * a <= (ReliableRetries + 1) * a /\ (call.tries + 1) * a \in Nat
  <2>1. call.tries \in Nat /\ call.tries <= ReliableRetries
      BY <1>2
  <2> QED
      BY <1>1, <1>2, <2>1, OneMoreAttempt
<1>10. sent'.count[i] <= call.tries * a + call.outer * (k + 1) + call.inner + 1
  <2>1. call.inner \in Nat /\ sent.count[i] \in Nat
      BY <1>1, <1>2, <1>3
  <2> QED
      BY <1>5, <1>6, <1>8, <1>9, <2>1
<1>11. sent'.count[i] <= (call.tries + 1) * a
  <2>1. call.inner \in Nat /\ sent'.count[i] \in Nat
      BY <1>1, <1>2, <1>5
  <2> QED
      BY <1>8, <1>9, <1>10, <1>1, <2>1
<1>12. \A j \in DOMAIN chain : sent'.count[j] <= (ReliableRetries + 1) * PerAttempt(j)
  <2>1. ASSUME NEW j \in DOMAIN chain, j # i PROVE sent'.count[j] <= (ReliableRetries + 1) * PerAttempt(j)
      BY <1>5, <2>1 DEF CallUnderWay, CallHas
  <2>2. sent'.count[i] <= (ReliableRetries + 1) * a
    <3>1. (ReliableRetries + 1) * a \in Nat /\ sent'.count[i] \in Nat
        BY <1>1, <1>2, <1>5
    <3> QED
        BY <1>9, <1>11, <3>1
  <2> QED
      BY <2>1, <2>2 DEF a
<1>13. CallHas(call, sent')
    BY <1>4, <1>5, <1>12 DEF CallUnderWay, AttemptOn, CallHas
<1>14. DirectCall(call, sent')
  <2>1. ASSUME call.direct PROVE \A j \in DOMAIN chain : sent'.count[j] <= 1
    <3>1. \A j \in DOMAIN chain : sent.count[j] = 0
        BY <2>1 DEF CallUnderWay, AttemptOn
    <3> QED
        BY <1>1, <1>5, <3>1
  <2> QED
      BY <2>1 DEF CallUnderWay, DirectCall
<1>15. OthersUnsent(call, sent') /\ call.times = 0
    BY <1>5 DEF CallUnderWay, AttemptOn, OthersUnsent, CallHas, i
<1> QED
    BY <1>10, <1>11, <1>13, <1>14, <1>15 DEF AttemptOver, i, k, a

----------------------------------------------------------------------------
(* The steps of a call.                                                    *)
LEMMA CallProviderSound ==
    ASSUME CallSound, CallProvider
    PROVE  CallSound'
<1>1. call.phase = "call" /\ UNCHANGED <<boot, setup, chain, sent>>
    BY DEF CallProvider
<1>2. ChainBuilt /\ boot = "ok" /\ CallUnderWay(call, sent)
    BY <1>1, PhaseIs DEF CallSound, UnderWay
<1>3. \/ \E st : call' = Conclude(call, st)
      \/ \E p \in {"process", "transfer", "stream", "post"} :
            /\ call' = [call EXCEPT !.phase = p]
            /\ p # "transfer" => Provider.kind \in ProcessKinds \/ ~call.direct
  <2> DEFINE url == BuildUrl(Provider, call.q, Streamed)
             body == BuildRequest(Provider, call.q, Streamed)
             head == Headers(Provider, Env, call.direct)
             st == CASE call.q.cancel /\ ~call.direct -> "cancelled"
                     [] Streamed /\ Provider.kind = "bedrock" -> "unsupported"
                     [] OTHER -> IF body.st # "ok" THEN body.st
                                 ELSE IF Provider.kind \in ProcessKinds THEN "ok"
                                 ELSE IF url.st # "ok" THEN url.st
                                 ELSE IF head.st # "ok" \/ ~call.direct THEN head.st
                                 ELSE RefusedBefore([url |-> url.val.scheme, header |-> head.val, cancel |-> FALSE])
             next == CASE Provider.kind \in ProcessKinds -> "process"
                       [] call.direct -> "transfer"
                       [] OTHER -> IF Streamed /\ Provider.kind # "compatible" THEN "stream" ELSE "post"
  <2>1. call' = IF st = "ok" THEN [call EXCEPT !.phase = next] ELSE Conclude(call, st)
      BY DEF CallProvider
  <2>2. /\ next \in {"process", "transfer", "stream", "post"}
        /\ next # "transfer" => Provider.kind \in ProcessKinds \/ ~call.direct
      OBVIOUS
  <2> HIDE DEF st, next
  <2> QED
      BY <2>1, <2>2
<1>4. CASE \E st : call' = Conclude(call, st)
  <2>1. AttemptOver(call, sent)
      BY <1>1, <1>2, AttemptEnds
  <2>2. CallUnderWay(call', sent') \/ CallEnded(call', sent')
      BY <1>1, <1>2, <1>4, <2>1, ConcludeSound
  <2> QED
      BY <1>1, <1>2, <2>2, ChainKept
<1>5. CASE \E p \in {"process", "transfer", "stream", "post"} :
              /\ call' = [call EXCEPT !.phase = p]
              /\ p # "transfer" => Provider.kind \in ProcessKinds \/ ~call.direct
  <2>1. PICK p \in {"process", "transfer", "stream", "post"} :
              /\ call' = [call EXCEPT !.phase = p]
              /\ p # "transfer" => Provider.kind \in ProcessKinds \/ ~call.direct
      BY <1>5
  <2>2. /\ CallParts \subseteq DOMAIN call' /\ call'.phase = p /\ call'.cand = call.cand
        /\ call'.tries = call.tries /\ call'.outer = call.outer /\ call'.inner = call.inner
        /\ call'.direct = call.direct /\ call'.times = call.times /\ call'.last = call.last
      BY <1>2, <2>1 DEF CallUnderWay, CallHas, CallParts
  <2>3. call.direct => p = "transfer"
    <3>1. ASSUME call.direct PROVE Provider.kind \notin ProcessKinds
      <4>1. call.cand = {1} /\ chain[1].kind \notin ProcessKinds
          BY <1>2, <3>1 DEF CallUnderWay, DirectCall
      <4>2. Current(call) \in call.cand
          BY <1>2, CurrentIn DEF CallUnderWay
      <4> QED
          BY <4>1, <4>2 DEF Provider
    <3> QED
        BY <2>1, <3>1
  <2>4. CallHas(call', sent') /\ DirectCall(call', sent')
      BY <1>1, <1>2, <2>2 DEF CallUnderWay, CallHas, DirectCall
  <2>5. Current(call') = Current(call)
      BY <2>2 DEF Current
  <2>6. AttemptOn(call', sent')
      BY <1>1, <1>2, <2>2, <2>3, <2>5 DEF CallUnderWay, AttemptOn, OthersUnsent, UnderWay, Answering
  <2> QED
      BY <1>1, <1>2, <2>4, <2>6, ChainKept DEF CallUnderWay
<1> QED
    BY <1>3, <1>4, <1>5

LEMMA OverButStream ==
    ASSUME NEW c, NEW n, AttemptOver(c, n), NEW x
    PROVE  AttemptOver([c EXCEPT !.s = x], n)
<1> DEFINE d == [c EXCEPT !.s = x]
<1>1. /\ CallParts \subseteq DOMAIN d /\ d.cand = c.cand /\ d.tries = c.tries
      /\ d.direct = c.direct /\ d.times = c.times
    BY DEF AttemptOver, CallHas, CallParts
<1> HIDE DEF d
<1>2. Current(d) = Current(c)
    BY <1>1 DEF Current
<1>3. AttemptOver(d, n)
    BY <1>1, <1>2 DEF AttemptOver, CallHas, DirectCall, OthersUnsent
<1> QED
    BY <1>3 DEF d

LEMMA PostSound ==
    ASSUME CallSound, NEW a, Post(a)
    PROVE  CallSound'
<1>1. call.phase = "post" /\ OneSent /\ UNCHANGED <<boot, setup, chain>>
    BY DEF Post, OneSent
<1>2. ChainBuilt /\ boot = "ok" /\ CallUnderWay(call, sent)
    BY <1>1, PhaseIs DEF CallSound, UnderWay
<1>3. ~call.direct
    BY <1>1, <1>2 DEF CallUnderWay, AttemptOn
<1>4. /\ AttemptOver(call, sent')
      /\ sent'.count[Current(call)] <= call.tries * PerAttempt(Current(call))
                + call.outer * (chain[Current(call)].retries + 1) + call.inner + 1
    BY <1>1, <1>2, <1>3, SendSound DEF Answering
<1>5. \/ /\ call.inner < Provider.retries /\ call' = [call EXCEPT !.inner = @ + 1]
      \/ /\ call.outer < Provider.retries /\ call' = [call EXCEPT !.inner = 0, !.outer = @ + 1]
      \/ \E st : call' = Conclude([call EXCEPT !.s.body = a.body], st)
    BY Zenon DEF Post, JsonPostAgain, AttemptLeft
<1>6. Provider.retries = chain[Current(call)].retries /\ Provider.retries \in Nat
    BY <1>2, CurrentIn DEF Provider, CallUnderWay
<1>7. /\ call.outer \in 0..Provider.retries /\ call.inner \in 0..Provider.retries
      /\ call.times = 0 /\ call.last \notin Permanent
    BY <1>2, <1>6 DEF CallUnderWay, AttemptOn
<1>8. /\ call.tries * PerAttempt(Current(call)) \in Nat
      /\ call.outer * (Provider.retries + 1) \in Nat
      /\ (call.outer + 1) * (Provider.retries + 1) = call.outer * (Provider.retries + 1) + (Provider.retries + 1)
      /\ sent'.count[Current(call)] \in Nat
  <2>1. call.tries \in Nat /\ PerAttempt(Current(call)) \in Nat /\ Current(call) \in DOMAIN chain
      BY <1>2, CurrentIn, SetupsBuilt DEF CallUnderWay, CallHas
  <2>2. sent'.count[Current(call)] \in Nat
      BY <1>4, <2>1 DEF AttemptOver, CallHas
  <2>3. /\ call.outer * (Provider.retries + 1) \in Nat
        /\ (call.outer + 1) * (Provider.retries + 1) = call.outer * (Provider.retries + 1) + (Provider.retries + 1)
      BY <1>6, <1>7, OneMoreRound
  <2>4. call.tries * PerAttempt(Current(call)) \in Nat
      BY <2>1
  <2> QED
      BY <2>2, <2>3, <2>4
<1>9. ASSUME CallParts \subseteq DOMAIN call', call'.phase = "post", call'.cand = call.cand,
             call'.tries = call.tries, call'.direct = call.direct, call'.times = call.times,
             call'.last = call.last,
             call'.outer \in 0..Provider.retries, call'.inner \in 0..Provider.retries,
             sent'.count[Current(call)] <= call.tries * PerAttempt(Current(call))
                + call'.outer * (Provider.retries + 1) + call'.inner
      PROVE  CallSound'
  <2>1. CallHas(call', sent') /\ DirectCall(call', sent')
      BY <1>3, <1>4, <1>9 DEF AttemptOver, CallHas, DirectCall
  <2>2. Current(call') = Current(call)
      BY <1>9 DEF Current
  <2>3. OthersUnsent(call', sent')
      BY <1>4, <1>9, <2>2 DEF AttemptOver, OthersUnsent
  <2>4. AttemptOn(call', sent')
      BY <1>3, <1>6, <1>7, <1>9, <2>2, <2>3 DEF AttemptOn, UnderWay, Answering
  <2> QED
      BY <1>1, <1>2, <2>1, <2>4, ChainKept DEF CallUnderWay
<1>10. CASE call.inner < Provider.retries /\ call' = [call EXCEPT !.inner = @ + 1]
  <2>1. /\ CallParts \subseteq DOMAIN call' /\ call'.phase = "post" /\ call'.cand = call.cand
        /\ call'.tries = call.tries /\ call'.direct = call.direct /\ call'.times = call.times
        /\ call'.last = call.last /\ call'.outer = call.outer /\ call'.inner = call.inner + 1
      BY <1>1, <1>2, <1>10 DEF CallUnderWay, CallHas, CallParts
  <2>2. call'.inner \in 0..Provider.retries
      BY <1>6, <1>7, <1>10, <2>1
  <2>3. sent'.count[Current(call)] <= call.tries * PerAttempt(Current(call))
                + call'.outer * (Provider.retries + 1) + call'.inner
      BY <1>4, <1>6, <1>7, <1>8, <2>1
  <2> QED
      BY <1>7, <1>9, <2>1, <2>2, <2>3
<1>11. CASE call.outer < Provider.retries /\ call' = [call EXCEPT !.inner = 0, !.outer = @ + 1]
  <2>1. /\ CallParts \subseteq DOMAIN call' /\ call'.phase = "post" /\ call'.cand = call.cand
        /\ call'.tries = call.tries /\ call'.direct = call.direct /\ call'.times = call.times
        /\ call'.last = call.last /\ call'.outer = call.outer + 1 /\ call'.inner = 0
      BY <1>1, <1>2, <1>11 DEF CallUnderWay, CallHas, CallParts
  <2>2. call'.outer \in 0..Provider.retries /\ 0 \in 0..Provider.retries
      BY <1>6, <1>7, <1>11, <2>1
  <2>3. sent'.count[Current(call)] <= call.tries * PerAttempt(Current(call))
                + (call.outer + 1) * (Provider.retries + 1) + 0
    <3>1. call.inner \in Nat /\ call.inner <= Provider.retries
        BY <1>6, <1>7
    <3> QED
        BY <1>4, <1>6, <1>8, <3>1
  <2> QED
      BY <1>9, <2>1, <2>2, <2>3
<1>12. CASE \E st : call' = Conclude([call EXCEPT !.s.body = a.body], st)
  <2>1. PICK x : \E st : call' = Conclude([call EXCEPT !.s = x], st)
      BY <1>12, Zenon
  <2>2. AttemptOver([call EXCEPT !.s = x], sent')
      BY <1>4, OverButStream
  <2>3. CallUnderWay(call', sent') \/ CallEnded(call', sent')
      BY <1>2, <2>1, <2>2, ConcludeSound
  <2> QED
      BY <1>1, <1>2, <2>3, ChainKept
<1> QED
    BY <1>5, <1>10, <1>11, <1>12

LEMMA ProcessSound ==
    ASSUME CallSound, NEW r, Process(r)
    PROVE  CallSound'
<1>1. /\ call.phase = "process" /\ OneSent /\ UNCHANGED <<boot, setup, chain>>
      /\ \E st : call' = Conclude(call, st)
    BY DEF Process, OneSent
<1>2. ChainBuilt /\ boot = "ok" /\ CallUnderWay(call, sent)
    BY <1>1, PhaseIs DEF CallSound, UnderWay
<1>3. ~call.direct
    BY <1>1, <1>2 DEF CallUnderWay, AttemptOn
<1>4. AttemptOver(call, sent')
    BY <1>1, <1>2, <1>3, SendSound DEF Answering
<1>5. CallUnderWay(call', sent') \/ CallEnded(call', sent')
    BY <1>1, <1>2, <1>4, ConcludeSound
<1> QED
    BY <1>1, <1>2, <1>5, ChainKept

LEMMA RespondSound ==
    ASSUME CallSound, NEW b, Respond(b)
    PROVE  CallSound'
<1>1. /\ call.phase \in {"stream", "transfer"} /\ OneSent /\ UNCHANGED <<boot, setup, chain>>
    BY DEF Respond, OneSent
<1>2. ChainBuilt /\ boot = "ok" /\ CallUnderWay(call, sent)
    BY <1>1, PhaseIs DEF CallSound, UnderWay
<1>3. call.direct => call.phase = "transfer"
    BY <1>1, <1>2 DEF CallUnderWay, AttemptOn
<1>4. AttemptOver(call, sent')
    BY <1>1, <1>2, <1>3, SendSound DEF Answering
<1>5. \E x : call' = [call EXCEPT !.phase = IF call.phase = "stream" THEN "chunks" ELSE "receiving", !.s = x]
    BY DEF Respond
<1>6. /\ CallParts \subseteq DOMAIN call' /\ call'.cand = call.cand
      /\ call'.phase = IF call.phase = "stream" THEN "chunks" ELSE "receiving"
      /\ call'.tries = call.tries /\ call'.outer = call.outer /\ call'.inner = call.inner
      /\ call'.direct = call.direct /\ call'.times = call.times /\ call'.last = call.last
    BY <1>2, <1>5 DEF CallUnderWay, CallHas, CallParts
<1>7. CallHas(call', sent') /\ DirectCall(call', sent')
    BY <1>4, <1>6 DEF AttemptOver, CallHas, DirectCall
<1>8. Current(call') = Current(call)
    BY <1>6 DEF Current
<1>9. OthersUnsent(call', sent')
    BY <1>4, <1>6, <1>8 DEF AttemptOver, OthersUnsent
<1>10. AttemptOn(call', sent')
  <2>1. sent'.count[Current(call)] <= (call.tries + 1) * PerAttempt(Current(call))
      BY <1>4 DEF AttemptOver
  <2> QED
      BY <1>1, <1>2, <1>3, <1>6, <1>8, <1>9, <2>1 DEF CallUnderWay, AttemptOn, UnderWay, Answering
<1> QED
    BY <1>1, <1>2, <1>7, <1>10, ChainKept DEF CallUnderWay

(* The parser's state is no part of the count.                             *)
LEMMA SameButStream ==
    ASSUME CallUnderWay(call, sent), NEW x
    PROVE  CallUnderWay([call EXCEPT !.s = x], sent) /\ [call EXCEPT !.s = x].phase = call.phase
<1> DEFINE c == [call EXCEPT !.s = x]
<1>1. /\ CallParts \subseteq DOMAIN c /\ c.cand = call.cand /\ c.phase = call.phase
      /\ c.tries = call.tries /\ c.outer = call.outer /\ c.inner = call.inner
      /\ c.direct = call.direct /\ c.times = call.times /\ c.last = call.last
    BY DEF CallUnderWay, CallHas, CallParts
<1> HIDE DEF c
<1>2. CallHas(c, sent) /\ DirectCall(c, sent)
    BY <1>1 DEF CallUnderWay, CallHas, DirectCall
<1>3. Current(c) = Current(call)
    BY <1>1 DEF Current
<1>4. AttemptOn(c, sent)
    BY <1>1, <1>3 DEF CallUnderWay, AttemptOn, OthersUnsent
<1> QED
    BY <1>1, <1>2, <1>4 DEF CallUnderWay, c

(* A chunk changes what was read, or ends the attempt.                     *)
LEMMA ChunkGoesOn ==
    ASSUME NEW n, Chunk(n)
    PROVE  \E x : \/ call' = [call EXCEPT !.s = x]
                  \/ \E st : call' = Conclude([call EXCEPT !.s = x], st)
<1>1. PICK got \in {Push(call.s.ps, SubSeq(call.s.left, 1, n), MaxPartial, Docs)} :
        LET wrote == WriteChunk(call.s.op, n, FALSE, MaxBytes, got.st)
            op == IF call.phase = "chunks" THEN call.s.op ELSE wrote[1]
            read == [call.s EXCEPT !.ps = IF op.large THEN @ ELSE got.ps, !.left = SubSeq(@, n + 1, Len(@)), !.op = op]
            fed == [call EXCEPT !.s = read]
        IN  \/ call' = fed \/ \E st : call' = Conclude(fed, st)
    BY Zenon DEF Chunk
<1> QED
    BY <1>1, Zenon

LEMMA ChunkSound ==
    ASSUME CallSound, NEW n, Chunk(n)
    PROVE  CallSound'
<1>1. call.phase \in Answering /\ UNCHANGED <<boot, setup, chain, sent>>
    BY DEF Chunk, Answering
<1>2. ChainBuilt /\ boot = "ok" /\ CallUnderWay(call, sent)
    BY <1>1, PhaseIs DEF CallSound, UnderWay, Answering
<1>3. \E x : \/ call' = [call EXCEPT !.s = x]
             \/ \E st : call' = Conclude([call EXCEPT !.s = x], st)
    BY ChunkGoesOn
<1>4. PICK x : call' = [call EXCEPT !.s = x] \/ \E st : call' = Conclude([call EXCEPT !.s = x], st)
    BY <1>3
<1>5. CallUnderWay([call EXCEPT !.s = x], sent) /\ [call EXCEPT !.s = x].phase \in Answering
    BY <1>1, <1>2, SameButStream
<1>6. AttemptOver([call EXCEPT !.s = x], sent)
    BY <1>2, <1>5, AttemptEnds
<1>7. CallUnderWay(call', sent') \/ CallEnded(call', sent')
    BY <1>1, <1>2, <1>4, <1>5, <1>6, ConcludeSound
<1> QED
    BY <1>1, <1>2, <1>7, ChainKept

LEMMA EndOfTransferSound ==
    ASSUME CallSound, EndOfTransfer
    PROVE  CallSound'
<1>1. /\ call.phase \in Answering /\ UNCHANGED <<boot, setup, chain, sent>>
      /\ \E st : call' = Conclude(call, st)
    BY DEF EndOfTransfer, Answering
<1>2. ChainBuilt /\ boot = "ok" /\ CallUnderWay(call, sent)
    BY <1>1, PhaseIs DEF CallSound, UnderWay, Answering
<1>3. AttemptOver(call, sent)
    BY <1>1, <1>2, AttemptEnds
<1>4. CallUnderWay(call', sent') \/ CallEnded(call', sent')
    BY <1>1, <1>2, <1>3, ConcludeSound
<1> QED
    BY <1>1, <1>2, <1>4, ChainKept

LEMMA ReturnSound ==
    ASSUME CallSound, Return
    PROVE  CallSound'
<1>1. call.phase = "ended" /\ call' = Idle /\ UNCHANGED <<boot, setup, chain, sent>>
    BY DEF Return
<1>2. ChainBuilt /\ boot = "ok" /\ CallEnded(call, sent)
    BY <1>1, PhaseIs DEF CallSound
<1>3. ChainBuilt'
    BY <1>1, <1>2 DEF ChainBuilt
<1>4. NoCall(call, sent)'
    BY <1>1, <1>2 DEF CallEnded, CallHas, NoCall, PerAttempt
<1> QED
    BY <1>3, <1>4 DEF CallSound

----------------------------------------------------------------------------
(* A provider is built with the retries of its options, or not at all.     *)
BuiltFrom(v, o) ==
    /\ v.st \in {"ok", "security_denied", "invalid_argument", "unsupported"}
    /\ v.st = "ok" => "retries" \in DOMAIN v.val /\ v.val.retries = o.retries

LEMMA BuiltOrNot ==
    ASSUME NEW o, NEW p, "retries" \in DOMAIN p, p.retries = o.retries
    PROVE  /\ BuiltFrom(Done(p), o)
           /\ \A code \in {"security_denied", "invalid_argument", "unsupported"} : BuiltFrom(Fail(code), o)
           /\ \A u : BuiltFrom(Done([p EXCEPT !.base = u]), o)
           /\ \A u, m : BuiltFrom(Done([p EXCEPT !.base = u, !.name = m]), o)
           /\ \A u, m : BuiltFrom(Done([p EXCEPT !.base = u, !.env = m]), o)
           /\ \A u, m : BuiltFrom(Done([p EXCEPT !.name = m, !.base.path = u]), o)
           /\ \A u, m, b : BuiltFrom(Done([p EXCEPT !.name = m, !.loopback = b, !.base = u]), o)
<1>1. ASSUME NEW x, "retries" \in DOMAIN x, x.retries = o.retries PROVE BuiltFrom(Done(x), o)
    BY <1>1 DEF BuiltFrom, Done
<1>2. \A code \in {"security_denied", "invalid_argument", "unsupported"} : BuiltFrom(Fail(code), o)
    BY DEF BuiltFrom, Fail
<1>3. ASSUME NEW u, NEW m, NEW b
      PROVE  /\ BuiltFrom(Done([p EXCEPT !.base = u]), o)
             /\ BuiltFrom(Done([p EXCEPT !.base = u, !.name = m]), o)
             /\ BuiltFrom(Done([p EXCEPT !.base = u, !.env = m]), o)
             /\ BuiltFrom(Done([p EXCEPT !.name = m, !.base.path = u]), o)
             /\ BuiltFrom(Done([p EXCEPT !.name = m, !.loopback = b, !.base = u]), o)
  <2>1. /\ "retries" \in DOMAIN [p EXCEPT !.base = u] /\ [p EXCEPT !.base = u].retries = p.retries
        /\ "retries" \in DOMAIN [p EXCEPT !.base = u, !.name = m] /\ [p EXCEPT !.base = u, !.name = m].retries = p.retries
        /\ "retries" \in DOMAIN [p EXCEPT !.base = u, !.env = m] /\ [p EXCEPT !.base = u, !.env = m].retries = p.retries
      OBVIOUS
  <2>2. /\ "retries" \in DOMAIN [p EXCEPT !.name = m, !.base.path = u]
        /\ [p EXCEPT !.name = m, !.base.path = u].retries = p.retries
      OBVIOUS
  <2>3. /\ "retries" \in DOMAIN [p EXCEPT !.name = m, !.loopback = b, !.base = u]
        /\ [p EXCEPT !.name = m, !.loopback = b, !.base = u].retries = p.retries
      OBVIOUS
  <2> QED
      BY <1>1, <2>1, <2>2, <2>3
<1> QED
    BY <1>1, <1>2, <1>3

LEMMA ConstructSound ==
    ASSUME NEW o, "retries" \in DOMAIN o
    PROVE  BuiltFrom(Construct(o), o)
<1>1. BuiltFrom(HttpProviderNew(o), o)
  <2>1. HttpProviderNew(o) = Fail("security_denied") \/ \E u, m : HttpProviderNew(o) = Done([o EXCEPT !.base = u, !.name = m])
      BY Zenon DEF HttpProviderNew
  <2> QED
      BY <2>1, BuiltOrNot, Zenon
<1>2. BuiltFrom(PresetNew(o, Presets), o)
  <2>1. PresetNew(o, Presets) = Fail("invalid_argument") \/ \E u, m : PresetNew(o, Presets) = Done([o EXCEPT !.base = u, !.env = m])
      BY Zenon DEF PresetNew
  <2> QED
      BY <2>1, BuiltOrNot, Zenon
<1>3. BuiltFrom(Done(LocalNew(o, o.name)), o)
  <2>1. \E u, m, b : LocalNew(o, o.name) = [o EXCEPT !.name = m, !.loopback = b, !.base = u]
    <3>1. \E u : LocalNew(o, o.name) = [o EXCEPT !.name = o.name, !.loopback = TRUE, !.base = u]
        BY Zenon DEF LocalNew
    <3> QED
        BY <3>1
  <2> QED
      BY <2>1, BuiltOrNot, Zenon
<1>4. BuiltFrom(AzureNew(o), o)
  <2>1. \/ AzureNew(o) = Fail("invalid_argument")
        \/ \E u, m : AzureNew(o) = Done([o EXCEPT !.name = m, !.base.path = u])
      BY Zenon DEF AzureNew
  <2> QED
      BY <2>1, BuiltOrNot, Zenon
<1>5. ASSUME NEW p, "retries" \in DOMAIN p, p.retries = o.retries PROVE BuiltFrom(CompatibleNew(p), o)
  <2>1. CompatibleNew(p) = Fail("security_denied") \/ CompatibleNew(p) = Done([p EXCEPT !.base = NormalizeUrl(@)])
      BY Zenon DEF CompatibleNew
  <2>2. [p EXCEPT !.base = NormalizeUrl(@)] = [p EXCEPT !.base = NormalizeUrl(p.base)]
      OBVIOUS
  <2> QED
      BY <1>5, <2>1, <2>2, BuiltOrNot, Zenon
<1>6. BuiltFrom(Done(o), o) /\ BuiltFrom(Fail("unsupported"), o)
    BY BuiltOrNot
<1> DEFINE made == CASE o.preset = "preset" -> PresetNew(o, Presets)
                     [] o.preset = "local" -> Done(LocalNew(o, o.name))
                     [] o.preset = "azure" -> AzureNew(o)
                     [] OTHER -> Done(o)
<1>7. BuiltFrom(made, o)
  <2>1. made \in {PresetNew(o, Presets), Done(LocalNew(o, o.name)), AzureNew(o), Done(o)}
      OBVIOUS
  <2> HIDE DEF made
  <2> QED
      BY <1>2, <1>3, <1>4, <1>6, <2>1
<1>8. \/ Construct(o) = HttpProviderNew(o) \/ Construct(o) = Done(o) \/ Construct(o) = Fail("unsupported")
      \/ Construct(o) = made
      \/ made.st = "ok" /\ Construct(o) = CompatibleNew(made.val)
  <2> DEFINE claude == IF o.base.scheme = "" THEN Fail("unsupported") ELSE Done(o)
             other == IF made.st # "ok" THEN made ELSE CompatibleNew(made.val)
  <2>1. Construct(o) = CASE o.kind \in HttpKinds -> HttpProviderNew(o)
                         [] o.kind = "gemini_cli" -> Done(o)
                         [] o.kind = "claude_code" -> claude
                         [] o.kind = "compatible" -> other
                         [] OTHER -> Fail("unsupported")
      BY Zenon DEF Construct
  <2>2. claude = Fail("unsupported") \/ claude = Done(o)
      BY Zenon
  <2>3. (made.st # "ok" /\ other = made) \/ (made.st = "ok" /\ other = CompatibleNew(made.val))
    <3> HIDE DEF made
    <3> QED
        OBVIOUS
  <2> HIDE DEF claude, other, made
  <2>4. Construct(o) \in {HttpProviderNew(o), Done(o), claude, other, Fail("unsupported")}
      BY <2>1
  <2> QED
      BY <2>2, <2>3, <2>4
<1> HIDE DEF made
<1>9. ASSUME made.st = "ok" PROVE BuiltFrom(CompatibleNew(made.val), o)
  <2>1. "retries" \in DOMAIN made.val /\ made.val.retries = o.retries
      BY <1>7, <1>9 DEF BuiltFrom
  <2> QED
      BY <1>5, <2>1
<1> QED
    BY <1>1, <1>6, <1>7, <1>8, <1>9

LEMMA BuildSound ==
    ASSUME CallSound, Boot
    PROVE  CallSound'
<1> DEFINE made == [i \in DOMAIN setup.options |-> Construct(setup.options[i])]
           bad == {i \in DOMAIN made : made[i].st # "ok"}
<1>1. /\ boot = "none" /\ UNCHANGED <<setup, call, sent>>
      /\ boot' = IF bad = {} THEN "ok" ELSE made[Min(bad)].st
      /\ chain' = IF bad = {} THEN [i \in DOMAIN made |-> made[i].val] ELSE <<>>
    BY DEF Boot
<1>2. setup \in Setups /\ NoCall(call, sent)
    BY <1>1 DEF CallSound, ChainBuilt
<1>3. /\ DOMAIN setup.options \subseteq Nat
      /\ \A i \in DOMAIN setup.options : "retries" \in DOMAIN setup.options[i] /\ setup.options[i].retries \in Nat
    BY <1>2, SetupsBuilt
<1>4. DOMAIN made = DOMAIN setup.options /\ \A i \in DOMAIN made : BuiltFrom(made[i], setup.options[i])
    BY <1>3, ConstructSound
<1> HIDE DEF made
<1>5. DOMAIN sent.count = {}
    BY <1>1, <1>2 DEF NoCall
<1>6. NoCall(call, sent)'
    BY <1>1, <1>2, <1>5 DEF NoCall
<1>7. CASE bad = {}
  <2>1. boot' = "ok" /\ chain' = [i \in DOMAIN made |-> made[i].val]
      BY <1>1, <1>7
  <2>2. \A i \in DOMAIN made : made[i].st = "ok"
      BY <1>7
  <2>3. \A i \in DOMAIN made : made[i].val.retries \in Nat
      BY <1>3, <1>4, <2>2 DEF BuiltFrom
  <2>4. ChainBuilt'
      BY <1>1, <1>2, <1>4, <2>1, <2>3 DEF ChainBuilt
  <2> QED
      BY <1>6, <2>4 DEF CallSound
<1>8. CASE bad # {}
  <2>1. Min(bad) \in bad
      BY <1>3, <1>4, <1>8, SmallestOf
  <2>2. made[Min(bad)].st \in {"security_denied", "invalid_argument", "unsupported"}
      BY <1>4, <2>1 DEF BuiltFrom
  <2>3. boot' \in {"security_denied", "invalid_argument", "unsupported"}
      BY <1>1, <1>8, <2>2
  <2>4. ChainBuilt'
      BY <1>1, <1>2, <2>3 DEF ChainBuilt
  <2> QED
      BY <1>6, <2>4 DEF CallSound
<1> QED
    BY <1>7, <1>8

(* The providers a call may try are there.                                 *)
LEMMA CandidatesThere ==
    ASSUME ChainBuilt, boot = "ok", NEW q
    PROVE  /\ Candidates(q) # {} /\ Candidates(q) \subseteq DOMAIN chain
           /\ setup.shape = "single" => Candidates(q) = {1}
<1>1. /\ DOMAIN chain = DOMAIN setup.options /\ 1 \in DOMAIN chain /\ DOMAIN setup.routes \subseteq Nat
      /\ \A i \in DOMAIN setup.routes : setup.routes[i].to \in DOMAIN chain
    BY SetupsBuilt DEF ChainBuilt
<1>2. SelectProvider(q) \in DOMAIN chain
  <2> DEFINE hinted == {i \in DOMAIN setup.routes : setup.routes[i].hint \in q.hint}
             tools == {i \in DOMAIN setup.routes : setup.routes[i].hint = "tools"}
  <2>1. hinted # {} => Min(hinted) \in DOMAIN setup.routes
      BY <1>1, SmallestOf
  <2>2. tools # {} => Min(tools) \in DOMAIN setup.routes
      BY <1>1, SmallestOf
  <2>3. SelectProvider(q) = CASE hinted # {} -> setup.routes[Min(hinted)].to
                              [] hinted = {} /\ q.aboutTools /\ tools # {} -> setup.routes[Min(tools)].to
                              [] OTHER -> 1
      BY DEF SelectProvider
  <2> HIDE DEF hinted, tools
  <2> QED
      BY <1>1, <2>1, <2>2, <2>3
<1>3. Candidates(q) = CASE setup.shape = "reliable" ->
                             IF {i \in DOMAIN chain : chain[i].name \in q.named} = {} THEN DOMAIN chain
                             ELSE {i \in DOMAIN chain : chain[i].name \in q.named}
                        [] setup.shape = "router" -> {SelectProvider(q)}
                        [] OTHER -> {1}
    BY DEF Candidates
<1> QED
    BY <1>1, <1>2, <1>3

LEMMA StartSound ==
    ASSUME CallSound, NEW q, NEW mode, NEW async \in BOOLEAN, Start(q, mode, async)
    PROVE  CallSound'
<1>1. /\ boot = "ok" /\ call.phase = "idle" /\ UNCHANGED <<boot, setup, chain>>
      /\ sent' = [NotSent EXCEPT !.count = [i \in DOMAIN chain |-> 0], !.refused = [i \in DOMAIN chain |-> {}]]
    BY DEF Start
<1>2. ChainBuilt
    BY DEF CallSound
<1>3. /\ CallParts \subseteq DOMAIN call' /\ call'.phase = "call" /\ call'.cand = Candidates(q)
      /\ call'.tries = 0 /\ call'.outer = 0 /\ call'.inner = 0 /\ call'.times = 0 /\ call'.last = "ok"
      /\ call'.direct = (async /\ setup.shape = "single" /\ chain[1].kind \notin ProcessKinds)
    BY DEF Start, Idle, CallParts
<1>4. /\ {"count", "after"} \subseteq DOMAIN sent' /\ sent'.count = [i \in DOMAIN chain |-> 0] /\ sent'.after = {}
    BY <1>1 DEF NotSent
<1>5. /\ Candidates(q) # {} /\ Candidates(q) \subseteq DOMAIN chain
      /\ setup.shape = "single" => Candidates(q) = {1}
    BY <1>1, <1>2, CandidatesThere
<1>6. ASSUME NEW i \in DOMAIN chain
      PROVE  /\ chain[i].retries \in Nat /\ PerAttempt(i) \in Nat
             /\ 0 <= (ReliableRetries + 1) * PerAttempt(i)
             /\ 0 <= 0 * PerAttempt(i) + 0 * (chain[i].retries + 1) + 0
  <2>1. chain[i].retries \in Nat
      BY <1>1, <1>2 DEF ChainBuilt
  <2>2. PerAttempt(i) \in Nat
      BY <2>1 DEF PerAttempt
  <2>3. (ReliableRetries + 1) * PerAttempt(i) \in Nat /\ 0 * PerAttempt(i) = 0 /\ 0 * (chain[i].retries + 1) = 0
      BY <2>1, <2>2, SetupsBuilt
  <2> QED
      BY <2>1, <2>2, <2>3
<1>7. CallHas(call', sent')
    BY <1>3, <1>4, <1>5, <1>6, SetupsBuilt DEF CallHas
<1>8. DirectCall(call', sent')
  <2>1. call'.direct = (async /\ setup.shape = "single" /\ chain[1].kind \notin ProcessKinds)
      BY <1>3
  <2>2. call'.direct => setup.shape = "single" /\ chain[1].kind \notin ProcessKinds
      BY <2>1, Zenon
  <2>3. \A i \in DOMAIN chain : sent'.count[i] <= 1
      BY <1>4
  <2>4. setup.shape = "single" => call'.cand = {1}
      BY <1>3, <1>5
  <2> QED
      BY <2>2, <2>3, <2>4 DEF DirectCall
<1>9. Current(call') \in DOMAIN chain
    BY <1>1, <1>2, <1>7, CurrentIn
<1>10. "ok" \notin Permanent
    BY DEF Permanent
<1>11. OthersUnsent(call', sent')
    BY <1>3, <1>4, <1>5 DEF OthersUnsent
<1>12. AttemptOn(call', sent')
  <2>1. 0 \in 0..chain[Current(call')].retries
      BY <1>6, <1>9
  <2>2. 0 <= 0 * PerAttempt(Current(call')) + 0 * (chain[Current(call')].retries + 1) + 0
      BY <1>6, <1>9
  <2>3. sent'.count[Current(call')] = 0 /\ \A k \in DOMAIN chain : sent'.count[k] = 0
      BY <1>4, <1>9
  <2> QED
      BY <1>3, <1>10, <1>11, <2>1, <2>2, <2>3 DEF AttemptOn, UnderWay, Answering
<1> QED
    BY <1>1, <1>2, <1>7, <1>8, <1>12, ChainKept DEF CallUnderWay

LEMMA CallStep ==
    ASSUME CallSound, [Next]_vars
    PROVE  CallSound'
<1>1. CASE UNCHANGED vars
  <2>1. UNCHANGED <<boot, setup, chain, call, sent>>
      BY <1>1 DEF vars
  <2> QED
      BY <2>1 DEF CallSound, ChainBuilt, CallUnderWay, CallEnded, NoCall, CallHas, DirectCall,
                  AttemptOn, OthersUnsent, Current, PerAttempt
<1>2. CASE Next
  <2>1. CASE Boot
      BY <2>1, BuildSound
  <2>2. CASE \E q \in Prompts, mode \in {"generate", "stream"}, async \in BOOLEAN : Start(q, mode, async)
      BY <2>2, StartSound
  <2>3. CASE CallProvider
      BY <2>3, CallProviderSound
  <2>4. CASE \E a \in Answers : Post(a)
      BY <2>4, PostSound
  <2>5. CASE \E r \in Results : Process(r)
      BY <2>5, ProcessSound
  <2>6. CASE \E a \in Answers : Respond(a)
      BY <2>6, RespondSound
  <2>7. CASE \E n \in 1..MaxPartial : Chunk(n)
      BY <2>7, ChunkSound
  <2>8. CASE EndOfTransfer
      BY <2>8, EndOfTransferSound
  <2>9. CASE Return
      BY <2>9, ReturnSound
  <2> QED
      BY <1>2, <2>1, <2>2, <2>3, <2>4, <2>5, <2>6, <2>7, <2>8, <2>9 DEF Next, Step
<1> QED
    BY <1>1, <1>2

LEMMA CallSoundSays == CallSound => TypeOK /\ RequestsBounded /\ PermanentEnds
<1> SUFFICES ASSUME CallSound PROVE TypeOK /\ RequestsBounded /\ PermanentEnds
    OBVIOUS
<1>1. boot \in {"none", "ok", "security_denied", "invalid_argument", "unsupported"}
    BY DEF CallSound, ChainBuilt
<1>2. ReliableRetries \in Nat
    BY SetupsBuilt
<1>3. CASE NoCall(call, sent)
  <2>1. call.phase = "idle" /\ call.tries = 0 /\ call.times = 0 /\ call.direct = FALSE
      BY <1>3 DEF NoCall, Idle
  <2>2. TypeOK
      BY <1>1, <1>2, <2>1 DEF TypeOK
  <2>3. ASSUME NEW i \in DOMAIN sent.count
        PROVE  sent.count[i] <= (ReliableRetries + 1) * (chain[i].retries + 1) * (chain[i].retries + 1)
    <3>1. i \in DOMAIN chain /\ chain[i].retries \in Nat
        BY <1>3 DEF NoCall, CallSound, ChainBuilt
    <3>2. sent.count[i] <= (ReliableRetries + 1) * ((chain[i].retries + 1) * (chain[i].retries + 1))
        BY <1>3 DEF NoCall, PerAttempt
    <3>3. \A r, k \in Nat : (r + 1) * ((k + 1) * (k + 1)) = (r + 1) * (k + 1) * (k + 1)
        OBVIOUS
    <3> QED
        BY <1>2, <3>1, <3>2, <3>3
  <2> QED
      BY <1>3, <2>1, <2>2, <2>3 DEF RequestsBounded, PermanentEnds, NoCall
<1>4. CASE boot = "ok" /\ (CallUnderWay(call, sent) \/ CallEnded(call, sent))
  <2>1. CallHas(call, sent) /\ DirectCall(call, sent)
      BY <1>4 DEF CallUnderWay, CallEnded
  <2>2. /\ call.phase \in {"idle", "call", "post", "process", "stream", "transfer", "chunks", "receiving", "ended"}
        /\ call.times <= 1
      BY <1>4 DEF CallUnderWay, CallEnded, AttemptOn, UnderWay
  <2>3. TypeOK
      BY <1>1, <1>2, <2>1, <2>2 DEF TypeOK, CallHas
  <2>4. ASSUME NEW i \in DOMAIN chain
        PROVE  sent.count[i] <= (ReliableRetries + 1) * (chain[i].retries + 1) * (chain[i].retries + 1)
    <3>1. chain[i].retries \in Nat
        BY <1>4 DEF CallSound, ChainBuilt
    <3>2. sent.count[i] <= (ReliableRetries + 1) * ((chain[i].retries + 1) * (chain[i].retries + 1))
        BY <2>1 DEF CallHas, PerAttempt
    <3>3. \A r, k \in Nat : (r + 1) * ((k + 1) * (k + 1)) = (r + 1) * (k + 1) * (k + 1)
        OBVIOUS
    <3> QED
        BY <1>2, <3>1, <3>2, <3>3
  <2>5. RequestsBounded
    <3>1. DOMAIN sent.count = DOMAIN chain
        BY <2>1 DEF CallHas
    <3>2. \A i \in DOMAIN chain : call.direct => sent.count[i] <= 1
        BY <2>1 DEF DirectCall
    <3> QED
        BY <2>4, <3>1, <3>2 DEF RequestsBounded
  <2> QED
      BY <2>1, <2>3, <2>5 DEF PermanentEnds, CallHas
<1> QED
    BY <1>3, <1>4 DEF CallSound

----------------------------------------------------------------------------
(* Outside the chain a call goes on to no other request once its           *)
(* credentials were refused: the two loops look at the code (Post), and    *)
(* what they give up Conclude ends.                                        *)
Credentials == {401, 403}

NoneRefused(n) == \A i \in DOMAIN chain : n.refused[i] \cap Credentials = {}

CodesKept ==
    /\ {"refused", "again"} \subseteq DOMAIN sent
    /\ setup.shape # "reliable" => sent.again \cap Credentials = {}
    /\ call.phase # "idle" => sent.refused \in [DOMAIN chain -> SUBSET Refusals]
    /\ (setup.shape # "reliable" /\ call.phase \in UnderWay \ Answering) => NoneRefused(sent)

(* Outside the chain what is concluded has ended.                          *)
LEMMA ConcludedEnds ==
    ASSUME NEW c, CallParts \subseteq DOMAIN c, NEW st
    PROVE  /\ setup.shape # "reliable" => Conclude(c, st).phase = "ended"
           /\ Conclude(c, st).phase # "idle"
<1> DEFINE ended == [c EXCEPT !.phase = "ended", !.last = st, !.times = @ + 1]
           again == [c EXCEPT !.phase = "call", !.outer = 0, !.inner = 0, !.last = st]
           tryAgain == [again EXCEPT !.tries = @ + 1]
           goOn == [again EXCEPT !.cand = @ \ {Current(c)}, !.tries = 0]
<1>1. /\ Conclude(c, st) = ended \/ Conclude(c, st) = tryAgain \/ Conclude(c, st) = goOn
      /\ setup.shape # "reliable" => Conclude(c, st) = ended
    BY Zenon DEF Conclude
<1>2. ended.phase = "ended" /\ tryAgain.phase = "call" /\ goOn.phase = "call"
    BY DEF CallParts
<1> HIDE DEF ended, tryAgain, goOn
<1> QED
    BY <1>1, <1>2

(* A request goes out to a provider that has refused no credentials.       *)
LEMMA SendKeeps ==
    ASSUME CallSound, CodesKept, call.phase \in UnderWay \ Answering, NEW code, Send(code)
    PROVE  /\ {"refused", "again"} \subseteq DOMAIN sent'
           /\ setup.shape # "reliable" => sent'.again \cap Credentials = {}
           /\ sent'.refused \in [DOMAIN chain -> SUBSET Refusals]
           /\ setup.shape # "reliable" /\ code \notin Credentials => NoneRefused(sent')
<1>1. Current(call) \in DOMAIN chain
    BY PhaseIs, CurrentIn DEF CallSound, CallUnderWay
<1>2. sent.refused \in [DOMAIN chain -> SUBSET Refusals]
    BY DEF CodesKept, UnderWay
<1>3. /\ {"refused", "again"} \subseteq DOMAIN sent'
      /\ sent'.refused = [sent.refused EXCEPT ![Current(call)] = @ \cup ({code} \cap Refusals)]
      /\ sent'.again = sent.again \cup sent.refused[Current(call)]
    BY DEF Send
<1>4. sent'.refused \in [DOMAIN chain -> SUBSET Refusals]
    BY <1>1, <1>2, <1>3
<1>5. setup.shape # "reliable" => sent'.again \cap Credentials = {}
    BY <1>1, <1>3 DEF CodesKept, NoneRefused
<1>6. ASSUME setup.shape # "reliable", code \notin Credentials, NEW i \in DOMAIN chain
      PROVE  sent'.refused[i] \cap Credentials = {}
  <2>1. sent.refused[i] \cap Credentials = {}
      BY <1>6 DEF CodesKept, NoneRefused
  <2>2. sent'.refused[i] = IF i = Current(call) THEN sent.refused[i] \cup ({code} \cap Refusals) ELSE sent.refused[i]
      BY <1>2, <1>3
  <2> QED
      BY <1>6, <2>1, <2>2
<1> QED
    BY <1>3, <1>4, <1>5, <1>6 DEF NoneRefused

(* Neither loop of Post repeats refused credentials.                       *)
LEMMA PostGivesUp ==
    ASSUME NEW a, AnswerCode(a) \in Credentials, Post(a)
    PROVE  \E x, st : call' = Conclude([call EXCEPT !.s = x], st)
<1>1. a.curl = "ok" /\ a.code \in {401, 403}
    BY DEF AnswerCode, Credentials
<1>2. ~Retryable(a)
    BY <1>1 DEF Retryable
<1>3. ~CompatibleRetries(a) /\ ~HttpRetries(a)
    BY <1>1 DEF CompatibleRetries, HttpRetries, ShouldRetry
<1>4. \E st : call' = Conclude([call EXCEPT !.s.body = a.body], st)
    BY <1>2, <1>3, Zenon DEF Post, JsonPostAgain
<1> QED
    BY <1>4, Zenon

LEMMA CodesStep ==
    ASSUME CallSound, CodesKept, [Next]_vars
    PROVE  CodesKept'
<1> DEFINE Sending == UnderWay \ Answering
<1>0. call.phase \in UnderWay => CallParts \subseteq DOMAIN call
    BY PhaseIs DEF CallUnderWay, CallHas
<1>1. CASE UNCHANGED vars
    BY <1>1 DEF vars, CodesKept, NoneRefused
<1>2. CASE Boot
  <2>1. call.phase = "idle" /\ UNCHANGED <<setup, call, sent>>
    <3>1. boot = "none" /\ UNCHANGED <<setup, call, sent>>
        BY <1>2 DEF Boot
    <3> QED
        BY <3>1 DEF CallSound, NoCall, Idle
  <2> QED
      BY <2>1 DEF CodesKept, UnderWay
<1>3. CASE \E q \in Prompts, mode \in {"generate", "stream"}, async \in BOOLEAN : Start(q, mode, async)
  <2>1. /\ UNCHANGED <<setup, chain>>
        /\ sent' = [NotSent EXCEPT !.count = [i \in DOMAIN chain |-> 0], !.refused = [i \in DOMAIN chain |-> {}]]
      BY <1>3 DEF Start
  <2>2. {"refused", "again"} \subseteq DOMAIN sent' /\ sent'.again = {} /\ sent'.refused = [i \in DOMAIN chain |-> {}]
      BY <2>1 DEF NotSent
  <2> QED
      BY <2>1, <2>2 DEF CodesKept, NoneRefused
<1>4. CASE CallProvider
  <2>1. call.phase = "call" /\ UNCHANGED <<setup, chain, sent>>
      BY <1>4 DEF CallProvider
  <2> QED
      BY <2>1 DEF CodesKept, NoneRefused, UnderWay, Answering
<1>5. CASE \E a \in Answers : Post(a)
  <2>1. PICK a \in Answers : Post(a)
      BY <1>5
  <2>2. call.phase = "post" /\ Send(AnswerCode(a)) /\ UNCHANGED <<setup, chain>>
      BY <2>1 DEF Post
  <2>3. call.phase \in Sending
      BY <2>2 DEF UnderWay, Answering
  <2>4. ASSUME setup.shape # "reliable", AnswerCode(a) \in Credentials PROVE call'.phase = "ended"
    <3>1. PICK x, st : call' = Conclude([call EXCEPT !.s = x], st)
        BY <2>1, <2>4, PostGivesUp
    <3>2. CallParts \subseteq DOMAIN [call EXCEPT !.s = x]
        BY <1>0, <2>3
    <3> QED
        BY <2>4, <3>1, <3>2, ConcludedEnds
  <2> QED
      BY <2>2, <2>3, <2>4, SendKeeps DEF CodesKept, NoneRefused, UnderWay
<1>6. CASE \E r \in Results : Process(r)
  <2>1. call.phase = "process" /\ Send(0) /\ UNCHANGED <<setup, chain>>
      BY <1>6 DEF Process
  <2> QED
      BY <2>1, SendKeeps DEF CodesKept, NoneRefused, UnderWay, Answering, Credentials
<1>7. CASE \E a \in Answers : Respond(a)
  <2>1. PICK b \in Answers : Respond(b)
      BY <1>7
  <2>2. call.phase \in {"stream", "transfer"} /\ UNCHANGED <<setup, chain>> /\ \E code : Send(code)
      BY <2>1 DEF Respond
  <2>3. \E x : call' = [call EXCEPT !.phase = IF call.phase = "stream" THEN "chunks" ELSE "receiving", !.s = x]
      BY <2>1 DEF Respond
  <2>4. call'.phase \in Answering /\ call.phase \in Sending
      BY <1>0, <2>2, <2>3 DEF CallParts, Answering, UnderWay
  <2> QED
      BY <2>2, <2>4, SendKeeps DEF CodesKept, NoneRefused
<1>8. CASE \E n \in 1..MaxPartial : Chunk(n)
  <2>1. call.phase \in Answering /\ UNCHANGED <<setup, chain, sent>>
      BY <1>8 DEF Chunk, Answering
  <2>2. \E x : call' = [call EXCEPT !.s = x] \/ \E st : call' = Conclude([call EXCEPT !.s = x], st)
      BY <1>8, ChunkGoesOn
  <2>3. PICK x : call' = [call EXCEPT !.s = x] \/ \E st : call' = Conclude([call EXCEPT !.s = x], st)
      BY <2>2
  <2>4. CallParts \subseteq DOMAIN [call EXCEPT !.s = x] /\ [call EXCEPT !.s = x].phase = call.phase
      BY <1>0, <2>1 DEF Answering, UnderWay, CallParts
  <2>5. setup.shape # "reliable" => call'.phase \in Answering \/ call'.phase = "ended"
      BY <2>1, <2>3, <2>4, ConcludedEnds
  <2>6. "ended" \notin UnderWay /\ call.phase # "idle"
      BY <2>1 DEF UnderWay, Answering
  <2> QED
      BY <2>1, <2>5, <2>6 DEF CodesKept, NoneRefused
<1>9. CASE EndOfTransfer
  <2>1. /\ call.phase \in Answering /\ UNCHANGED <<setup, chain, sent>>
        /\ \E st : call' = Conclude(call, st)
      BY <1>9 DEF EndOfTransfer, Answering
  <2>2. setup.shape # "reliable" => call'.phase = "ended"
      BY <1>0, <2>1, ConcludedEnds DEF Answering, UnderWay
  <2>3. "ended" \notin UnderWay /\ call.phase # "idle"
      BY <2>1 DEF UnderWay, Answering
  <2> QED
      BY <2>1, <2>2, <2>3 DEF CodesKept, NoneRefused
<1>10. CASE Return
  <2>1. call'.phase = "idle" /\ UNCHANGED <<setup, chain, sent>>
      BY <1>10 DEF Return, Idle
  <2> QED
      BY <2>1 DEF CodesKept, UnderWay
<1> QED
    BY <1>1, <1>2, <1>3, <1>4, <1>5, <1>6, <1>7, <1>8, <1>9, <1>10 DEF Next, Step

(* A call sends a provider no more than the product of its nested loops    *)
(* (provider_curl_json_post, http_provider_generate, reliable_generate),   *)
(* an asynchronous call one request, nothing after a final answer and,     *)
(* outside the chain, nothing after refused credentials.                   *)
THEOREM RetriesSoundHolds == Spec => []RetriesSound
<1>1. Init => CallSound /\ CodesKept
  <2> SUFFICES ASSUME Init PROVE CallSound /\ CodesKept
      OBVIOUS
  <2>1. boot = "none" /\ setup \in Setups /\ call = Idle /\ sent = NotSent
      BY DEF Init
  <2>2. /\ {"count", "after"} \subseteq DOMAIN NotSent /\ NotSent.after = {} /\ DOMAIN NotSent.count = {}
      BY DEF NotSent
  <2>3. CallSound
      BY <2>1, <2>2 DEF CallSound, ChainBuilt, NoCall
  <2>4. {"refused", "again"} \subseteq DOMAIN NotSent /\ NotSent.again = {} /\ Idle.phase = "idle"
      BY DEF NotSent, Idle
  <2> QED
      BY <2>1, <2>3, <2>4 DEF CodesKept, UnderWay
<1>2. CallSound /\ CodesKept /\ [Next]_vars => (CallSound /\ CodesKept)'
    BY CallStep, CodesStep
<1>3. CallSound /\ CodesKept => RetriesSound
    BY CallSoundSays DEF RetriesSound, CredentialsEnd, CodesKept, Credentials
<1> QED
    BY <1>1, <1>2, <1>3, PTL DEF Spec

----------------------------------------------------------------------------
(***************************************************************************)
(* What a stream tells.                                                    *)
(*                                                                         *)
(* After the first k symbols of a well-formed stream the parser holds what *)
(* came since the last event that ended (ParserAt), and the callback has   *)
(* what the events that ended tell (OutAt).  Push takes k to k + n for a   *)
(* chunk of n symbols whatever n is (PushReads), and FinishStream adds     *)
(* what is left to say (FinishReads): so the cuts of the network do not    *)
(* show.                                                                   *)
(***************************************************************************)
(* Induction up to a number, over the set of those for which a claim holds. *)
LEMMA UpTo ==
    ASSUME NEW N \in Nat, NEW G, 0 \in G, \A n \in 1..N : n - 1 \in G => n \in G
    PROVE  N \in G
<1> SUFFICES ASSUME N \notin G PROVE FALSE
    OBVIOUS
<1>1. PICK T : T = (0..N) \ G
    OBVIOUS
<1>2. T \subseteq Nat /\ T # {}
    BY <1>1
<1>3. PICK m \in T : \A y \in T : m <= y
    BY <1>2, SmallestOf
<1>4. m \in 1..N /\ m - 1 \in 0..N /\ m \notin G
    BY <1>1, <1>3
<1>5. m - 1 \notin T
    BY <1>3, <1>4
<1> QED
    BY <1>1, <1>4, <1>5

Puts(parts, m, g) ==
    g = [i \in 1..m |-> IF i = 1 THEN parts[i] ELSE g[i - 1] \o parts[i]]

Joins(parts, m, g) ==
    /\ g[1] = parts[1]
    /\ \A i \in 2..m : g[i] = g[i - 1] \o parts[i]

LEMMA FlattenRuns ==
    ASSUME NEW parts, NEW N \in Nat, N = Len(parts), N # 0
    PROVE  \E g : Joins(parts, N, g) /\ FlattenSeq(parts) = g[N]
<1> DEFINE G == {m \in 0..N : \E g : Puts(parts, m, g)}
<1>1. 0 \in G
  <2>1. PICK g : g = [i \in 1..0 |-> 0]
      OBVIOUS
  <2>2. Puts(parts, 0, g)
      BY <2>1 DEF Puts
  <2> QED
      BY <2>2
<1>2. ASSUME NEW m \in 1..N, m - 1 \in G PROVE m \in G
  <2>1. PICK g : Puts(parts, m - 1, g)
      BY <1>2
  <2>2. PICK v : v = IF m = 1 THEN parts[m] ELSE g[m - 1] \o parts[m]
      OBVIOUS
  <2>3. PICK h : h = [i \in 1..m |-> IF i = m THEN v ELSE g[i]]
      OBVIOUS
  <2>4. \A i \in 1..(m - 1) : h[i] = g[i]
      BY <2>3
  <2>5. ASSUME NEW i \in 1..m
        PROVE  h[i] = IF i = 1 THEN parts[i] ELSE h[i - 1] \o parts[i]
    <3>1. CASE i = m
      <4>1. h[i] = v /\ (i # 1 => i - 1 \in 1..(m - 1))
          BY <2>3, <3>1
      <4>2. i # 1 => h[i - 1] = g[m - 1]
          BY <2>4, <3>1, <4>1
      <4> QED
          BY <2>2, <3>1, <4>1, <4>2
    <3>2. CASE i # m
      <4>1. i \in 1..(m - 1) /\ (i # 1 => i - 1 \in 1..(m - 1))
          BY <3>2
      <4>2. g[i] = IF i = 1 THEN parts[i] ELSE g[i - 1] \o parts[i]
          BY <2>1, <4>1 DEF Puts
      <4> QED
          BY <2>4, <4>1, <4>2
    <3> QED
        BY <3>1, <3>2
  <2>6. Puts(parts, m, h)
      BY <2>3, <2>5 DEF Puts
  <2> QED
      BY <2>6
<1>3. \E g : Puts(parts, N, g)
  <2>1. N \in G
    <3> HIDE DEF G
    <3> QED
        BY <1>1, <1>2, UpTo
  <2> QED
      BY <2>1
<1>4. PICK g : Puts(parts, N, g) /\ g = CHOOSE f : Puts(parts, N, f)
    BY <1>3
<1>5. FlattenSeq(parts) = g[N]
    BY <1>4 DEF FlattenSeq, Puts
<1>6. Joins(parts, N, g)
  <2>1. Puts(parts, N, g)
      BY <1>4
  <2> HIDE <1>4
  <2>2. g[1] = parts[1]
      BY <2>1 DEF Puts
  <2>3. ASSUME NEW i \in 2..N PROVE g[i] = g[i - 1] \o parts[i]
    <3>1. i \in 1..N /\ i # 1
        OBVIOUS
    <3> QED
        BY <2>1, <3>1 DEF Puts
  <2> QED
      BY <2>2, <2>3 DEF Joins
<1> QED
    BY <1>5, <1>6

BeginAlike(a, b, k) == \A n \in 1..k : a[n] = b[n]

LEMMA JoinsAgree ==
    ASSUME NEW a, NEW b, NEW k \in Nat, NEW l \in Nat, k <= l, k # 0, NEW f, NEW g,
           Joins(a, k, f), Joins(b, l, g), BeginAlike(a, b, k)
    PROVE  f[k] = g[k]
<1> DEFINE G == {n \in 0..k : n = 0 \/ f[n] = g[n]}
<1>1. 0 \in G
    OBVIOUS
<1>2. ASSUME NEW m \in 1..k, m - 1 \in G PROVE m \in G
  <2>1. m \in 1..l /\ a[m] = b[m]
      BY DEF BeginAlike
  <2>2. CASE m = 1
      BY <2>1, <2>2 DEF Joins
  <2>3. CASE m # 1
    <3>1. m \in 2..k /\ m \in 2..l /\ f[m - 1] = g[m - 1]
        BY <1>2, <2>3
    <3>2. f[m] = f[m - 1] \o a[m] /\ g[m] = g[m - 1] \o b[m]
        BY <3>1 DEF Joins
    <3>3. f[m] = g[m]
        BY <2>1, <3>1, <3>2, Zenon
    <3> QED
        BY <3>3
  <2> QED
      BY <2>2, <2>3
<1>3. k \in G
  <2> HIDE DEF G
  <2> QED
      BY <1>1, <1>2, UpTo
<1> QED
    BY <1>3

(* One more part at the end.                                               *)
OnePartMore(a, b, x, n) == n = Len(a) /\ Len(b) = n + 1 /\ BeginAlike(a, b, n) /\ b[n + 1] = x
Joined(a, b, x, n) == FlattenSeq(b) = IF n = 0 THEN x ELSE FlattenSeq(a) \o x

LEMMA FlattenOneMore ==
    ASSUME NEW a, NEW b, NEW x, NEW n \in Nat, OnePartMore(a, b, x, n)
    PROVE  Joined(a, b, x, n)
<1>0. n = Len(a) /\ Len(b) = n + 1 /\ BeginAlike(a, b, n) /\ b[n + 1] = x
    BY DEF OnePartMore
<1>1. PICK l : l = n + 1
    OBVIOUS
<1>2. l \in Nat /\ l = Len(b) /\ l # 0 /\ n <= l
    BY <1>0, <1>1
<1>3. PICK g : Joins(b, l, g) /\ FlattenSeq(b) = g[l]
    BY <1>2, FlattenRuns
<1>4. CASE n = 0
  <2>1. l = 1 /\ b[1] = x
      BY <1>0, <1>1, <1>4
  <2> QED
      BY <1>3, <1>4, <2>1 DEF Joins, Joined
<1>5. CASE n # 0
  <2>1. PICK f : Joins(a, n, f) /\ FlattenSeq(a) = f[n]
      BY <1>0, <1>5, FlattenRuns
  <2>2. Joins(a, n, f) /\ Joins(b, l, g)
      BY <1>3, <2>1
  <2>3. f[n] = g[n]
      BY <1>0, <1>2, <1>5, <2>2, JoinsAgree
  <2>4. g[l] = g[n] \o x
    <3>1. l \in 2..l /\ l - 1 = n /\ b[l] = x
        BY <1>0, <1>1, <1>5
    <3> QED
        BY <2>2, <3>1 DEF Joins
  <2> QED
      BY <1>3, <1>5, <2>1, <2>3, <2>4 DEF Joined
<1> QED
    BY <1>4, <1>5

-----------------------------------------------------------------------------
(* Where the events of a stream begin.                                     *)
LEMMA FirstIs ==
    ASSUME NEW marks, NEW k \in Nat, k # 0
    PROVE  /\ FirstSymbol(marks, k) \in 1..k
           /\ \A e \in FirstSymbol(marks, k)..(k - 1) : e \notin marks
           /\ \A i \in 1..k : (\A e \in i..(k - 1) : e \notin marks) => FirstSymbol(marks, k) <= i
<1>1. PICK T : T = {i \in 1..k : \A e \in i..(k - 1) : e \notin marks}
    OBVIOUS
<1>2. k \in T
    BY <1>1
<1>3. T \subseteq Nat /\ T # {}
    BY <1>1, <1>2
<1>4. Min(T) \in T /\ \A y \in T : Min(T) <= y
    BY <1>3, SmallestOf
<1>5. FirstSymbol(marks, k) = Min(T)
    BY <1>1 DEF FirstSymbol
<1> QED
    BY <1>1, <1>4, <1>5

(* It is the first symbol of all, or the one after an end.                 *)
LEMMA FirstAfter ==
    ASSUME NEW marks, NEW k \in Nat, k # 0
    PROVE  FirstSymbol(marks, k) = 1 \/ FirstSymbol(marks, k) - 1 \in marks
<1>1. PICK f : f = FirstSymbol(marks, k)
    OBVIOUS
<1>2. f \in 1..k /\ (\A e \in f..(k - 1) : e \notin marks)
      /\ \A i \in 1..k : (\A e \in i..(k - 1) : e \notin marks) => f <= i
    BY <1>1, FirstIs
<1>3. ASSUME f # 1, f - 1 \notin marks PROVE FALSE
  <2>1. f - 1 \in 1..k /\ \A e \in (f - 1)..(k - 1) : e = f - 1 \/ e \in f..(k - 1)
      BY <1>2, <1>3
  <2>2. \A e \in (f - 1)..(k - 1) : e \notin marks
      BY <1>2, <1>3, <2>1
  <2>3. f <= f - 1
      BY <1>2, <2>1, <2>2
  <2> QED
      BY <1>2, <2>3
<1> QED
    BY <1>1, <1>3

LEMMA FirstStays ==
    ASSUME NEW marks, NEW k \in Nat, k # 0, k \notin marks
    PROVE  FirstSymbol(marks, k + 1) = FirstSymbol(marks, k)
<1>1. PICK f, g, l : f = FirstSymbol(marks, k) /\ l = k + 1 /\ g = FirstSymbol(marks, l)
    OBVIOUS
<1>2. /\ f \in 1..k /\ (\A e \in f..(k - 1) : e \notin marks)
      /\ \A i \in 1..k : (\A e \in i..(k - 1) : e \notin marks) => f <= i
    BY <1>1, FirstIs
<1>3. l \in Nat /\ l # 0
    BY <1>1
<1>4. /\ g \in 1..l /\ (\A e \in g..(l - 1) : e \notin marks)
      /\ \A i \in 1..l : (\A e \in i..(l - 1) : e \notin marks) => g <= i
    BY <1>1, <1>3, FirstIs
<1>5. g <= f
  <2>1. \A e \in f..(l - 1) : e = k \/ e \in f..(k - 1)
      BY <1>1, <1>2
  <2> QED
      BY <1>1, <1>2, <1>4, <2>1
<1>6. f <= g
  <2>1. CASE g = l
      BY <1>1, <1>2, <2>1
  <2>2. CASE g # l
    <3>1. g \in 1..k /\ \A e \in g..(k - 1) : e \in g..(l - 1)
        BY <1>1, <1>4, <2>2
    <3> QED
        BY <1>2, <1>4, <3>1
  <2> QED
      BY <2>1, <2>2
<1> QED
    BY <1>1, <1>2, <1>4, <1>5, <1>6

LEMMA FirstMoves ==
    ASSUME NEW marks, NEW k \in Nat, k = 0 \/ k \in marks
    PROVE  FirstSymbol(marks, k + 1) = k + 1
<1>1. PICK g, l : l = k + 1 /\ g = FirstSymbol(marks, l)
    OBVIOUS
<1>2. l \in Nat /\ l # 0
    BY <1>1
<1>3. g \in 1..l /\ (\A e \in g..(l - 1) : e \notin marks)
    BY <1>1, <1>2, FirstIs
<1>4. g # l => k \in g..(l - 1)
    BY <1>1, <1>3
<1>5. k = 0 => g = l
    BY <1>1, <1>3
<1> QED
    BY <1>1, <1>3, <1>4, <1>5

-----------------------------------------------------------------------------
(* What the parser has in its buffer.                                      *)
PieceOf(S, body, f, p, x) ==
    /\ x \in Seq(S) /\ Len(x) = p + 1 - f
    /\ \A i \in 1..(p + 1 - f) : x[i] = body[f + i - 1]

LEMMA PieceIs ==
    ASSUME NEW S, NEW body \in Seq(S), NEW p \in 0..Len(body), NEW f \in 1..(p + 1)
    PROVE  PieceOf(S, body, f, p, SubSeq(body, f, p))
<1>1. Len(body) \in Nat /\ \A i \in 1..Len(body) : body[i] \in S
    BY LenProperties, ElementOfSeq
<1> QED
    BY <1>1 DEF PieceOf

LEMMA PieceGrows ==
    ASSUME NEW S, NEW body \in Seq(S), NEW p \in Nat, p < Len(body), NEW f \in 1..(p + 1)
    PROVE  Append(SubSeq(body, f, p), body[p + 1]) = SubSeq(body, f, p + 1)
<1>1. Len(body) \in Nat /\ p \in 0..Len(body) /\ p + 1 \in 0..Len(body) /\ f \in 1..((p + 1) + 1) /\ body[p + 1] \in S
    BY LenProperties, ElementOfSeq
<1>2. PICK x, y, z, c : /\ x = SubSeq(body, f, p) /\ y = SubSeq(body, f, p + 1)
                        /\ c = body[p + 1] /\ z = Append(x, c)
    OBVIOUS
<1>3. PieceOf(S, body, f, p, x) /\ PieceOf(S, body, f, p + 1, y)
    BY <1>1, <1>2, PieceIs
<1>4. x \in Seq(S) /\ Len(x) = p + 1 - f /\ \A i \in 1..(p + 1 - f) : x[i] = body[f + i - 1]
    BY <1>3 DEF PieceOf
<1>5. y \in Seq(S) /\ Len(y) = p + 2 - f /\ \A i \in 1..(p + 2 - f) : y[i] = body[f + i - 1]
    BY <1>3 DEF PieceOf
<1>6. /\ z \in Seq(S) /\ Len(z) = p + 2 - f
      /\ \A i \in 1..(p + 1 - f) : z[i] = x[i]
      /\ z[p + 2 - f] = c
    BY <1>1, <1>2, <1>4, AppendProperties
<1>7. ASSUME NEW i \in 1..Len(z) PROVE z[i] = y[i]
  <2>1. CASE i \in 1..(p + 1 - f)
      BY <1>4, <1>5, <1>6, <2>1
  <2>2. CASE i = p + 2 - f
    <3>1. y[i] = body[f + i - 1] /\ f + i - 1 = p + 1
        BY <1>5, <1>6, <2>2
    <3> QED
        BY <1>2, <1>6, <2>2, <3>1
  <2> QED
      BY <1>6, <2>1, <2>2
<1>8. Len(z) = Len(y)
    BY <1>5, <1>6
<1> QED
    BY <1>2, <1>5, <1>6, <1>7, <1>8, SeqEqual

LEMMA NoPiece ==
    ASSUME NEW S, NEW body \in Seq(S), NEW p \in 0..Len(body)
    PROVE  SubSeq(body, p + 1, p) = <<>>
<1>1. Len(body) \in Nat /\ p + 1 \in 1..(p + 1)
    BY LenProperties
<1>2. PieceOf(S, body, p + 1, p, SubSeq(body, p + 1, p))
    BY <1>1, PieceIs
<1>3. SubSeq(body, p + 1, p) \in Seq(S) /\ Len(SubSeq(body, p + 1, p)) = p + 1 - (p + 1)
    BY <1>2 DEF PieceOf
<1>4. Len(SubSeq(body, p + 1, p)) = 0
    BY <1>3
<1> QED
    BY <1>3, <1>4, EmptySeq

(* No event begins with a line break.                                      *)
Opens(kind, body) ==
    \A k \in DOMAIN body : (k = 1 \/ k - 1 \in EndsOf(kind, body)) => ~IsBreak(body[k])

LEMMA OpensAt ==
    ASSUME NEW S, NEW body \in Seq(S), NEW kind, Opens(kind, body), NEW p \in Nat, p < Len(body), NEW f,
           f = FirstSymbol(EndsOf(kind, body), p + 1)
    PROVE  f \in 1..(p + 1) /\ body[f] # "n" /\ body[f] # "r"
<1>1. Len(body) \in Nat /\ DOMAIN body = 1..Len(body)
    BY LenProperties
<1>2. PICK l : l = p + 1
    OBVIOUS
<1>3. l \in Nat /\ l # 0
    BY <1>2
<1>4. f \in 1..l /\ (f = 1 \/ f - 1 \in EndsOf(kind, body))
    BY <1>2, <1>3, FirstIs, FirstAfter
<1>5. ~IsBreak(body[f])
    BY <1>1, <1>2, <1>4 DEF Opens
<1> QED
    BY <1>2, <1>4, <1>5 DEF IsBreak

LEMMA PairIs ==
    ASSUME NEW S, NEW x \in Seq(S), Len(x) = 2, NEW a
    PROVE  x = <<a, a>> <=> x[1] = a /\ x[2] = a
<1>1. ASSUME x[1] = a, x[2] = a PROVE x = <<a, a>>
  <2>1. PICK y : y = <<a, a>>
      OBVIOUS
  <2>2. 1 \in 1..Len(x) /\ 2 \in 1..Len(x)
      OBVIOUS
  <2>3. a \in S
      BY <1>1, <2>2, ElementOfSeq
  <2>4. y \in Seq(S) /\ Len(y) = 2 /\ y[1] = a /\ y[2] = a
      BY <2>1, <2>3
  <2>5. \A i \in 1..Len(x) : i = 1 \/ i = 2
      OBVIOUS
  <2>6. \A i \in 1..Len(x) : x[i] = y[i]
      BY <1>1, <2>4, <2>5
  <2> QED
      BY <2>1, <2>4, <2>6, SeqEqual
<1> QED
    BY <1>1

LEMMA EndsWhen ==
    ASSUME NEW S, NEW body \in Seq(S), NEW kind, Opens(kind, body), NEW p \in Nat, p < Len(body), NEW f,
           f = FirstSymbol(EndsOf(kind, body), p + 1), NEW cur, cur = SubSeq(body, f, p + 1)
    PROVE  /\ EventEnds(kind, cur) <=> p + 1 \in EndsOf(kind, body)
           /\ p + 1 \in EndsOf(kind, body) => /\ EventText(kind, cur) = TextAt(kind, body, p + 1)
                                              /\ EventText(kind, cur) # <<>>
<1>1. Len(body) \in Nat /\ DOMAIN body = 1..Len(body)
    BY LenProperties
<1>2. f \in 1..(p + 1) /\ body[f] # "n" /\ body[f] # "r"
    BY OpensAt
<1>3. PICK l, n : l = p + 1 /\ n = l + 1 - f
    OBVIOUS
<1>4. l \in 1..Len(body) /\ l - 1 = p /\ n \in Nat /\ n # 0 /\ f \in 1..l /\ f \in 1..(l + 1) /\ l \in 0..Len(body)
    BY <1>1, <1>2, <1>3
<1>5. PieceOf(S, body, f, l, cur)
    BY <1>3, <1>4, PieceIs
<1>6. cur \in Seq(S) /\ Len(cur) = n /\ \A i \in 1..n : cur[i] = body[f + i - 1]
    BY <1>3, <1>5 DEF PieceOf
<1>7. cur[n] = body[l]
  <2>1. n \in 1..n /\ f + n - 1 = l
      BY <1>3, <1>4
  <2> QED
      BY <1>6, <2>1
<1>8. n > 1 => cur[n - 1] = body[p]
  <2>1. ASSUME n > 1 PROVE n - 1 \in 1..n /\ f + (n - 1) - 1 = p
      BY <1>3, <1>4, <2>1
  <2> QED
      BY <1>6, <2>1
<1>9. l \in EndsOf(kind, body) <=> body[l] = "n" /\ (kind = "ollama" \/ (l > 1 /\ body[p] = "n"))
    BY <1>1, <1>4 DEF EndsOf
<1>10. n > 1 \/ (f = l /\ body[l] # "n" /\ body[l] # "r")
    BY <1>2, <1>3, <1>4
<1>11. n > 1 => l > 1
    BY <1>2, <1>3, <1>4
<1>12. EventEnds(kind, cur) <=> l \in EndsOf(kind, body)
  <2>1. CASE kind = "ollama"
      BY <1>6, <1>7, <1>9, <2>1 DEF EventEnds, Last
  <2>2. CASE kind # "ollama"
    <3>1. EventEnds(kind, cur) <=> n > 1 /\ SubSeq(cur, n - 1, n) = <<"n", "n">>
        BY <1>6, <2>2 DEF EventEnds
    <3>2. n > 1 => (SubSeq(cur, n - 1, n) = <<"n", "n">> <=> cur[n - 1] = "n" /\ cur[n] = "n")
      <4> SUFFICES ASSUME n > 1 PROVE SubSeq(cur, n - 1, n) = <<"n", "n">> <=> cur[n - 1] = "n" /\ cur[n] = "n"
          OBVIOUS
      <4>1. PICK x : x = SubSeq(cur, n - 1, n)
          OBVIOUS
      <4>2. n \in 0..Len(cur) /\ n - 1 \in 1..(n + 1)
          BY <1>4, <1>6
      <4>3. PieceOf(S, cur, n - 1, n, x)
          BY <1>6, <4>1, <4>2, PieceIs
      <4>4. x \in Seq(S) /\ Len(x) = 2 /\ x[1] = cur[n - 1] /\ x[2] = cur[n]
        <5>1. n + 1 - (n - 1) = 2 /\ (n - 1) + 1 - 1 = n - 1 /\ (n - 1) + 2 - 1 = n /\ 1 \in 1..2 /\ 2 \in 1..2
            BY <1>4
        <5> QED
            BY <4>3, <5>1 DEF PieceOf
      <4>5. x = <<"n", "n">> <=> x[1] = "n" /\ x[2] = "n"
          BY <4>4, PairIs
      <4> QED
          BY <4>1, <4>4, <4>5
    <3> QED
        BY <1>7, <1>8, <1>9, <1>10, <1>11, <2>2, <3>1, <3>2
  <2> QED
      BY <2>1, <2>2
<1>13. ASSUME l \in EndsOf(kind, body)
       PROVE  EventText(kind, cur) = TextAt(kind, body, l) /\ EventText(kind, cur) # <<>>
  <2>1. n > 1 /\ l > 1
      BY <1>9, <1>10, <1>11, <1>13
  <2>2. PICK w \in {1, 2} : w = IF kind # "ollama" \/ body[p] = "r" THEN 2 ELSE 1
      OBVIOUS
  <2>3. EventText(kind, cur) = SubSeq(cur, 1, n - w)
      BY <1>6, <1>8, <2>1, <2>2 DEF EventText
  <2>4. TextAt(kind, body, l) = SubSeq(body, f, l - w)
      BY <1>3, <1>4, <2>1, <2>2 DEF TextAt
  <2>5. n - w >= 1
    <3>1. CASE w = 1
        BY <1>4, <2>1, <3>1
    <3>2. CASE w = 2
      <4>1. body[p] = "r" \/ body[p] = "n"
          BY <1>9, <1>13, <2>2, <3>2
      <4>2. f # p
          BY <1>2, <4>1
      <4>3. f # l
          BY <1>3, <1>4, <2>1
      <4> QED
          BY <1>3, <1>4, <3>2, <4>2, <4>3
    <3> QED
        BY <3>1, <3>2
  <2>6. PICK x, y : x = SubSeq(cur, 1, n - w) /\ y = SubSeq(body, f, l - w)
      OBVIOUS
  <2>7. n - w \in 0..Len(cur) /\ 1 \in 1..((n - w) + 1) /\ l - w \in 0..Len(body) /\ f \in 1..((l - w) + 1)
      BY <1>1, <1>3, <1>4, <1>6, <2>2, <2>5
  <2>8. PieceOf(S, cur, 1, n - w, x) /\ PieceOf(S, body, f, l - w, y)
      BY <1>6, <2>6, <2>7, PieceIs
  <2>9. /\ x \in Seq(S) /\ Len(x) = n - w /\ \A i \in 1..(n - w) : x[i] = cur[i]
    <3>1. /\ x \in Seq(S) /\ Len(x) = (n - w) + 1 - 1 /\ \A i \in 1..((n - w) + 1 - 1) : x[i] = cur[1 + i - 1]
        BY <2>8 DEF PieceOf
    <3>2. (n - w) + 1 - 1 = n - w /\ \A i \in 1..(n - w) : 1 + i - 1 = i
        BY <1>4
    <3> QED
        BY <3>1, <3>2
  <2>10. /\ y \in Seq(S) /\ Len(y) = n - w /\ \A i \in 1..(n - w) : y[i] = body[f + i - 1]
    <3>1. (l - w) + 1 - f = n - w
        BY <1>3, <1>4
    <3> QED
        BY <2>8, <3>1 DEF PieceOf
  <2>11. ASSUME NEW i \in 1..Len(x) PROVE x[i] = y[i]
    <3>1. i \in 1..(n - w) /\ i \in 1..n
        BY <1>4, <2>9
    <3> QED
        BY <1>6, <2>9, <2>10, <3>1
  <2>12. x = y
      BY <2>9, <2>10, <2>11, SeqEqual
  <2>13. x # <<>>
      BY <2>5, <2>9, EmptySeq
  <2> QED
      BY <2>3, <2>4, <2>6, <2>12, <2>13
<1> QED
    BY <1>3, <1>12, <1>13

-----------------------------------------------------------------------------
(* What one event gives the callback.                                      *)
Parser(kind, partial, isDone) == [kind |-> kind, partial |-> partial, failed |-> FALSE, done |-> isDone]
Shown(kind, text) == IF Announces(kind, text) THEN Tells(kind, text) \o <<DoneEvent>> ELSE Tells(kind, text)
Listy(s) == \E X : s \in Seq(X)

Gives(kind, partial, text, got) ==
    got.st = "ok" =>
        /\ Listy(Tells(kind, text)) /\ got.out = Shown(kind, text)
        /\ got.ps = Parser(kind, partial, Announces(kind, text))

LEMMA NotDone == Event("delta", "") # DoneEvent
    BY DEF Event, DoneEvent

LEMMA EmitGives ==
    ASSUME NEW kind, kind # "ollama", NEW partial, NEW text
    PROVE  Gives(kind, partial, text, Emit(Parser(kind, partial, FALSE), text, Docs))
<1> DEFINE ps == Parser(kind, partial, FALSE)
           r == ParseEvent(kind, DocOf(text, Docs))
           shown == IF kind # "compatible" /\ r.val = Event("delta", "") THEN <<>> ELSE <<r.val>>
           got == Emit(ps, text, Docs)
<1>1. ps.kind = kind /\ ps.done = FALSE
    BY DEF Parser
<1>2. got = IF r.st # "ok" THEN [st |-> r.st, ps |-> ps, out |-> <<>>]
            ELSE [st |-> IF shown = <<>> THEN "ok" ELSE CallbackStatus(DocOf(text, Docs)), out |-> shown,
                  ps |-> [ps EXCEPT !.done = (r.val = DoneEvent) \/ (kind # "compatible" /\ ps.done)]]
    BY <1>1, Zenon DEF Emit
<1>3. Announces(kind, text) = (r.val = DoneEvent)
    BY DEF Announces
<1>4. Tells(kind, text) = IF r.val = DoneEvent \/ (kind # "compatible" /\ r.val = Event("delta", "")) THEN <<>> ELSE <<r.val>>
    BY DEF Tells
<1> HIDE DEF r
<1> SUFFICES ASSUME got.st = "ok"
             PROVE  /\ Listy(Tells(kind, text)) /\ got.out = Shown(kind, text)
                    /\ got.ps = Parser(kind, partial, Announces(kind, text))
    BY DEF Gives
<1> HIDE DEF got
<1>5. r.st = "ok"
    BY <1>2
<1>6. /\ got.out = IF kind # "compatible" /\ r.val = Event("delta", "") THEN <<>> ELSE <<r.val>>
      /\ got.ps = [ps EXCEPT !.done = (r.val = DoneEvent) \/ (kind # "compatible" /\ ps.done)]
    BY <1>2, <1>5
<1>7. Listy(Tells(kind, text))
  <2>1. <<>> \in Seq({r.val}) /\ <<r.val>> \in Seq({r.val})
      OBVIOUS
  <2> QED
      BY <1>4, <2>1 DEF Listy
<1>8. got.out = Shown(kind, text)
  <2>1. CASE r.val = DoneEvent
    <3>1. Tells(kind, text) = <<>> /\ got.out = <<DoneEvent>>
        BY <1>4, <1>6, <2>1, NotDone
    <3>2. <<>> \o <<DoneEvent>> = <<DoneEvent>>
        OBVIOUS
    <3> QED
        BY <1>3, <2>1, <3>1, <3>2 DEF Shown
  <2>2. CASE r.val # DoneEvent
      BY <1>3, <1>4, <1>6, <2>2 DEF Shown
  <2> QED
      BY <2>1, <2>2
<1>9. got.ps = Parser(kind, partial, Announces(kind, text))
  <2>1. ((r.val = DoneEvent) \/ (kind # "compatible" /\ ps.done)) = (r.val = DoneEvent)
      BY <1>1, Zenon
  <2>2. got.ps = [ps EXCEPT !.done = Announces(kind, text)]
      BY <1>3, <1>6, <2>1
  <2> QED
      BY <2>2 DEF Parser
<1> QED
    BY <1>7, <1>8, <1>9

LEMMA ResponseListy ==
    ASSUME NEW r, NEW Y, r.calls \in Seq(Y)
    PROVE  Listy(ResponseEvents(r))
<1> DEFINE a == IF r.reasoning = "" THEN <<>> ELSE <<Event("reasoning", r.reasoning)>>
           b == IF r.text = "" THEN <<>> ELSE <<Event("delta", r.text)>>
           c == [i \in DOMAIN r.calls |-> Event("tool", r.calls[i].name)]
           d == IF r.pre = "" THEN <<>> ELSE <<Event("pre", r.pre)>>
           X == {Event("reasoning", r.reasoning), Event("delta", r.text), Event("pre", r.pre)}
                \cup {Event("tool", r.calls[i].name) : i \in DOMAIN r.calls}
<1>1. ResponseEvents(r) = a \o b \o c \o d
    BY DEF ResponseEvents
<1>2. a \in Seq(X) /\ b \in Seq(X) /\ d \in Seq(X)
  <2>1. /\ Event("reasoning", r.reasoning) \in X /\ Event("delta", r.text) \in X /\ Event("pre", r.pre) \in X
      OBVIOUS
  <2>2. PICK x, y, z : x = Event("reasoning", r.reasoning) /\ y = Event("delta", r.text) /\ z = Event("pre", r.pre)
      OBVIOUS
  <2> HIDE DEF X
  <2>3. <<>> \in Seq(X) /\ <<x>> \in Seq(X) /\ <<y>> \in Seq(X) /\ <<z>> \in Seq(X)
      BY <2>1, <2>2
  <2> QED
      BY <2>2, <2>3, Zenon
<1>3. c \in Seq(X)
  <2>1. PICK n \in Nat : DOMAIN r.calls = 1..n
      BY LenProperties
  <2>2. \A i \in 1..n : c[i] \in X
      BY <2>1
  <2>3. DOMAIN c = 1..n /\ c = [i \in 1..n |-> c[i]]
      BY <2>1
  <2> HIDE DEF c, X
  <2>4. c \in [1..n -> X]
      BY <2>2, <2>3
  <2> QED
      BY <2>4
<1> HIDE DEF a, b, c, d, X
<1>4. a \o b \in Seq(X)
    BY <1>2, ConcatProperties
<1>5. a \o b \o c \in Seq(X)
    BY <1>3, <1>4, ConcatProperties
<1>6. a \o b \o c \o d \in Seq(X)
    BY <1>2, <1>5, ConcatProperties
<1> QED
    BY <1>1, <1>6 DEF Listy

LEMMA OllamaCallsListy ==
    ASSUME NEW text, OllamaResponse(DocOf(text, Docs)).st = "ok"
    PROVE  Listy(OllamaResponse(DocOf(text, Docs)).val.calls)
<1> DEFINE d == DocOf(text, Docs)
<1>1. PICK e : e = d
    OBVIOUS
<1>2. OllamaResponse(e).st = "ok"
    BY <1>1
<1>3. e.json
    BY <1>2 DEF OllamaResponse, Fail
<1>4. OllamaCalls(e).st = "ok" /\ OllamaResponse(e).val.calls = OllamaCalls(e).val
    BY <1>2, <1>3 DEF OllamaResponse, Fail, Response, Done
<1>5. OllamaCalls(e).val = e.calls
    BY <1>4 DEF OllamaCalls, Fail, Done
<1>6. \E t \in DOMAIN Docs : e = Docs[t]
  <2> DEFINE data == SelectSeq(text, LAMBDA c : ~IsBreak(c))
  <2>1. e = IF data \in DOMAIN Docs THEN Docs[data] ELSE [json |-> FALSE, done |-> FALSE, none |-> data = <<>>]
      BY <1>1 DEF DocOf
  <2> HIDE DEF data
  <2> QED
      BY <1>3, <2>1
<1>7. PICK t \in DOMAIN Docs : e = Docs[t]
    BY <1>6
<1>8. e.calls \in Seq(ToSet(e.calls))
    BY <1>3, <1>7, StreamsAssumption
<1> QED
    BY <1>1, <1>4, <1>5, <1>8 DEF Listy

LEMMA EmitLineGives ==
    ASSUME NEW partial, NEW text
    PROVE  Gives("ollama", partial, text, EmitLine(Parser("ollama", partial, FALSE), text, Docs))
<1> DEFINE ps == Parser("ollama", partial, FALSE)
           r == OllamaResponse(DocOf(text, Docs))
           got == EmitLine(ps, text, Docs)
           marks == r.st = "ok" /\ r.val.finish # "" /\ ~ps.done
           events == ResponseEvents(r.val) \o (IF marks THEN <<DoneEvent>> ELSE <<>>)
           refusal == CallbackStatus(DocOf(text, Docs))
<1>1. ps.done = FALSE
    BY DEF Parser
<1>2. got = IF r.st # "ok" THEN [st |-> r.st, ps |-> ps, out |-> <<>>]
            ELSE IF events # <<>> /\ refusal # "ok" THEN [st |-> refusal, ps |-> ps, out |-> <<Head(events)>>]
            ELSE [st |-> "ok", out |-> events, ps |-> [ps EXCEPT !.done = @ \/ marks]]
    BY Zenon DEF EmitLine
<1>3. Announces("ollama", text) = (r.val.finish # "") /\ Tells("ollama", text) = ResponseEvents(r.val)
    BY DEF Announces, Tells
<1>4. r.st = "ok" => Listy(r.val.calls)
    BY OllamaCallsListy
<1> HIDE DEF r
<1> SUFFICES ASSUME got.st = "ok"
             PROVE  /\ Listy(Tells("ollama", text)) /\ got.out = Shown("ollama", text)
                    /\ got.ps = Parser("ollama", partial, Announces("ollama", text))
    BY DEF Gives
<1> HIDE DEF got
<1>5. r.st = "ok"
    BY <1>2
<1>6. /\ got.out = ResponseEvents(r.val) \o (IF marks THEN <<DoneEvent>> ELSE <<>>)
      /\ got.ps = [ps EXCEPT !.done = @ \/ marks]
    BY <1>2, <1>5
<1>7. Listy(Tells("ollama", text))
    BY <1>3, <1>4, <1>5, ResponseListy DEF Listy
<1>8. marks = Announces("ollama", text) /\ (ps.done \/ marks) = Announces("ollama", text)
    BY <1>1, <1>3, <1>5, Zenon
<1> HIDE DEF marks
<1>9. got.out = Shown("ollama", text)
  <2>1. Tells("ollama", text) \o <<>> = Tells("ollama", text)
      BY <1>7, ConcatEmptySeq DEF Listy
  <2> QED
      BY <1>3, <1>6, <1>8, <2>1 DEF Shown
<1>10. got.ps = Parser("ollama", partial, Announces("ollama", text))
  <2>1. got.ps = [ps EXCEPT !.done = Announces("ollama", text)]
      BY <1>6, <1>8
  <2> QED
      BY <2>1 DEF Parser
<1> QED
    BY <1>7, <1>9, <1>10

-----------------------------------------------------------------------------
(* What has been told after the first p symbols.                           *)
TellsAt(kind, body, k) ==
    IF k \in EndsOf(kind, body) THEN Tells(kind, TextAt(kind, body, k)) ELSE <<>>
Told(kind, body, p) == FlattenSeq([k \in 1..p |-> TellsAt(kind, body, k)])

LEMMA NothingTold ==
    ASSUME NEW kind, NEW body
    PROVE  Told(kind, body, 0) = <<>>
<1>1. PICK s : s = [k \in 1..0 |-> TellsAt(kind, body, k)]
    OBVIOUS
<1>2. s = <<>> /\ Len(s) = 0
    BY <1>1
<1> QED
    BY <1>1, <1>2 DEF Told, FlattenSeq

LEMMA ToldMore ==
    ASSUME NEW kind, NEW body, NEW p \in Nat, NEW E, Told(kind, body, p) \in Seq(E), TellsAt(kind, body, p + 1) \in Seq(E)
    PROVE  /\ Told(kind, body, p + 1) = Told(kind, body, p) \o TellsAt(kind, body, p + 1)
           /\ Told(kind, body, p + 1) \in Seq(E)
<1>1. PICK a, b, x, l : /\ l = p + 1 /\ x = TellsAt(kind, body, p + 1)
                        /\ a = [k \in 1..p |-> TellsAt(kind, body, k)]
                        /\ b = [k \in 1..l |-> TellsAt(kind, body, k)]
    OBVIOUS
<1>2. Len(a) = p /\ Len(b) = l /\ b[l] = x
    BY <1>1
<1>3. BeginAlike(a, b, p)
    BY <1>1 DEF BeginAlike
<1>4. OnePartMore(a, b, x, p)
    BY <1>1, <1>2, <1>3 DEF OnePartMore
<1>5. FlattenSeq(b) = IF p = 0 THEN x ELSE FlattenSeq(a) \o x
    BY <1>4, FlattenOneMore DEF Joined
<1>6. FlattenSeq(a) = Told(kind, body, p) /\ FlattenSeq(b) = Told(kind, body, p + 1)
    BY <1>1 DEF Told
<1>7. p = 0 => Told(kind, body, p) \o x = x
    BY <1>1, NothingTold, ConcatEmptySeq
<1>8. Told(kind, body, p + 1) = Told(kind, body, p) \o x
    BY <1>5, <1>6, <1>7
<1> QED
    BY <1>1, <1>8, ConcatProperties

(* All the events of a stream.                                             *)
ItemsOf(s) == {s[i] : i \in DOMAIN s}
EventsIn(kind, body) ==
    (UNION {ItemsOf(TellsAt(kind, body, k)) : k \in DOMAIN body})
    \cup ItemsOf(Tells(kind, LastLine(kind, body))) \cup {DoneEvent}

LEMMA ItemsSeq ==
    ASSUME NEW s, Listy(s), NEW E, ItemsOf(s) \subseteq E
    PROVE  s \in Seq(E)
<1>1. PICK X : s \in Seq(X)
    BY DEF Listy
<1>2. Len(s) \in Nat /\ DOMAIN s = 1..Len(s) /\ s \in [1..Len(s) -> X]
    BY <1>1, LenProperties
<1>3. \A i \in 1..Len(s) : s[i] \in E
    BY <1>2 DEF ItemsOf
<1>4. s \in [1..Len(s) -> E]
    BY <1>2, <1>3
<1> QED
    BY <1>2, <1>4

(* The parser after the first p symbols of a well-formed stream.           *)
DoneAt(kind, body, p) ==
    p = Len(body) /\ p \in EndsOf(kind, body) /\ Announces(kind, TextAt(kind, body, p))
ParserAt(kind, body, p) ==
    Parser(kind, SubSeq(body, FirstSymbol(EndsOf(kind, body), p + 1), p), DoneAt(kind, body, p))
OutAt(kind, body, p) ==
    IF DoneAt(kind, body, p) THEN Told(kind, body, p) \o <<DoneEvent>> ELSE Told(kind, body, p)

(* What is told at the first symbol in the buffer is all that is told.     *)
Settled(kind, body, p) ==
    /\ Told(kind, body, p) \in Seq(EventsIn(kind, body))
    /\ Told(kind, body, FirstSymbol(EndsOf(kind, body), p + 1) - 1) = Told(kind, body, p)

(* The run of the cutting loop, begun when t had been told.                *)
Reads(kind, body, t, r, p) ==
    r.st = "ok" =>
        /\ Settled(kind, body, p)
        /\ \E skip : \E o \in Seq(EventsIn(kind, body)) :
              /\ r = [st |-> "ok", skip |-> skip, ps |-> ParserAt(kind, body, p), out |-> o]
              /\ skip => p \in EndsOf(kind, body)
              /\ t \o o = OutAt(kind, body, p)

(* The parser and the loop as records.                                     *)
ParserOf(kind, partial, failed, isDone) == [kind |-> kind, partial |-> partial, failed |-> failed, done |-> isDone]
RunOf(st, skip, ps, o) == [st |-> st, skip |-> skip, ps |-> ps, out |-> o]

WithPartial(ps, y) == [ps EXCEPT !.partial = y]
WithFailed(ps, y) == [ps EXCEPT !.failed = y]
WithSkip(r, y) == [r EXCEPT !.skip = y]
WithPs(r, y) == [r EXCEPT !.ps = y]

LEMMA ParserChanges ==
    ASSUME NEW kind, NEW x, NEW y, NEW d, NEW e
    PROVE  /\ WithPartial(ParserOf(kind, x, e, d), y) = ParserOf(kind, y, e, d)
           /\ WithFailed(ParserOf(kind, x, e, d), y) = ParserOf(kind, x, y, d)
    BY DEF ParserOf, WithPartial, WithFailed

LEMMA RunChanges ==
    ASSUME NEW st, NEW skip, NEW ps, NEW o, NEW y
    PROVE  /\ WithSkip(RunOf(st, skip, ps, o), y) = RunOf(st, y, ps, o)
           /\ WithPs(RunOf(st, skip, ps, o), y) = RunOf(st, skip, y, o)
           /\ RunOf(st, skip, ps, o).ps = ps
    BY DEF RunOf, WithSkip, WithPs

GoOn(r, no, cur) == WithPs(WithSkip(r, no), WithPartial(WithSkip(r, no).ps, cur))

LEMMA RunGoesOn ==
    ASSUME NEW ok, NEW no, NEW kind, NEW x, NEW cur, NEW skip, NEW o, NEW r,
           r = RunOf(ok, skip, ParserOf(kind, x, no, no), o)
    PROVE  GoOn(r, no, cur) = RunOf(ok, no, ParserOf(kind, cur, no, no), o)
<1>1. PICK v, q : v = RunOf(ok, no, ParserOf(kind, x, no, no), o) /\ q = ParserOf(kind, cur, no, no)
    OBVIOUS
<1>2. WithSkip(r, no) = v
    BY <1>1, RunChanges
<1>3. v.ps = ParserOf(kind, x, no, no)
    BY <1>1, RunChanges
<1>4. WithPartial(v.ps, cur) = q
    BY <1>1, <1>3, ParserChanges
<1>5. WithPs(v, q) = RunOf(ok, no, q, o)
    BY <1>1, RunChanges
<1> QED
    BY <1>1, <1>2, <1>4, <1>5 DEF GoOn

No == FALSE
Ok == "ok"
PlainRun(r, kind, x, skip, o) == r = [st |-> "ok", skip |-> skip, ps |-> Parser(kind, x, FALSE), out |-> o]
GoneOn(r, kind, cur, o) ==
    [r EXCEPT !.skip = FALSE, !.ps.partial = cur] =
        [st |-> "ok", skip |-> FALSE, ps |-> Parser(kind, cur, FALSE), out |-> o]

LEMMA GoesOn ==
    ASSUME NEW kind, NEW x, NEW cur, NEW skip, NEW o, NEW r, PlainRun(r, kind, x, skip, o)
    PROVE  GoneOn(r, kind, cur, o)
<1>1. r = RunOf(Ok, skip, ParserOf(kind, x, No, No), o)
    BY Zenon DEF RunOf, ParserOf, Parser, PlainRun, No, Ok
<1>2. GoOn(r, No, cur) = RunOf(Ok, No, ParserOf(kind, cur, No, No), o)
    BY <1>1, RunGoesOn
<1> QED
    BY <1>2, Zenon DEF RunOf, ParserOf, Parser, GoneOn, GoOn, WithSkip, WithPs, WithPartial, No, Ok

StartedAgain(ps, kind, d) == [ps EXCEPT !.partial = <<>>, !.failed = FALSE] = Parser(kind, <<>>, d)

LEMMA StartsAgain ==
    ASSUME NEW kind, NEW x, NEW d, NEW ps, ps = Parser(kind, x, d)
    PROVE  StartedAgain(ps, kind, d)
<1>1. PICK no, y, q : no = FALSE /\ y = <<>> /\ q = WithPartial(ps, y)
    OBVIOUS
<1>2. ps = ParserOf(kind, x, no, d)
    BY <1>1, Zenon DEF ParserOf, Parser
<1>3. q = ParserOf(kind, y, no, d)
    BY <1>1, <1>2, ParserChanges
<1>4. WithFailed(q, no) = ParserOf(kind, y, no, d)
    BY <1>3, ParserChanges
<1> QED
    BY <1>1, <1>4, Zenon DEF ParserOf, Parser, StartedAgain, WithPartial, WithFailed

LEMMA NextOne ==
    ASSUME NEW n \in Nat, NEW p \in Nat, p < n
    PROVE  /\ p # n /\ p + 1 \in 1..n /\ (p + 1 # n => p + 1 < n)
           /\ (p + 1) - 1 = p /\ ((p + 1) + 1) - 1 = p + 1 /\ p + 1 \in Nat /\ p + 1 # 0 /\ p + 1 \in 0..n
    OBVIOUS

LEMMA FeedReads ==
    ASSUME NEW S, NEW body \in Seq(S), NEW kind, WellFormed(kind, body), NEW p \in Nat, p < Len(body),
           NEW t \in Seq(EventsIn(kind, body)), NEW r, Reads(kind, body, t, r, p)
    PROVE  Reads(kind, body, t, Feed(r, body[p + 1], Docs), p + 1)
<1> DEFINE E == EventsIn(kind, body)
           marks == EndsOf(kind, body)
           f == FirstSymbol(marks, p + 1)
           c == body[p + 1]
<1>1. Opens(kind, body) /\ Len(body) \in Nat /\ DOMAIN body = 1..Len(body)
    BY LenProperties DEF WellFormed, Opens
<1>20. /\ p # Len(body) /\ p + 1 \in 1..Len(body) /\ (p + 1 # Len(body) => p + 1 < Len(body))
       /\ (p + 1) - 1 = p /\ ((p + 1) + 1) - 1 = p + 1 /\ p + 1 \in Nat /\ p + 1 # 0 /\ p + 1 \in 0..Len(body)
    BY <1>1, NextOne
<1>2. CASE r.st # "ok"
  <2>1. Feed(r, c, Docs) = r
      BY <1>2 DEF Feed
  <2> QED
      BY <1>2, <2>1 DEF Reads
<1>3. CASE r.st = "ok"
  <2>1. Settled(kind, body, p)
      BY <1>3 DEF Reads
  <2>2. PICK skip : \E o \in Seq(EventsIn(kind, body)) :
              /\ r = [st |-> "ok", skip |-> skip, ps |-> ParserAt(kind, body, p), out |-> o]
              /\ skip => p \in EndsOf(kind, body)
              /\ t \o o = OutAt(kind, body, p)
      BY <1>3 DEF Reads
  <2>3. PICK o \in Seq(E) :
              /\ r = [st |-> "ok", skip |-> skip, ps |-> ParserAt(kind, body, p), out |-> o]
              /\ skip => p \in marks
              /\ t \o o = OutAt(kind, body, p)
      BY <2>2
  <2>5. DoneAt(kind, body, p) = FALSE
      BY <1>20, Zenon DEF DoneAt
  <2>6. t \o o = Told(kind, body, p)
      BY <2>3, <2>5 DEF OutAt
  <2>7. PICK x : x = SubSeq(body, f, p)
      OBVIOUS
  <2>8. ParserAt(kind, body, p) = Parser(kind, x, FALSE)
      BY <2>5, <2>7 DEF ParserAt
  <2>9. /\ r.ps = Parser(kind, x, FALSE) /\ r.skip = skip /\ r.out = o
        /\ r.ps.kind = kind /\ r.ps.partial = x
      BY <2>3, <2>8 DEF Parser
  <2>10. f \in 1..(p + 1)
      BY <1>1, OpensAt
  <2>11. PICK cur : cur = SubSeq(body, f, p + 1)
      OBVIOUS
  <2>12. Append(x, c) = cur
      BY <2>7, <2>10, <2>11, PieceGrows
  <2>13. /\ EventEnds(kind, cur) <=> p + 1 \in marks
         /\ p + 1 \in marks => EventText(kind, cur) = TextAt(kind, body, p + 1) /\ EventText(kind, cur) # <<>>
      BY <1>1, <2>11, EndsWhen
  <2>14. ~(skip /\ IsBreak(c))
    <3>1. p \in marks => ~IsBreak(c)
      <4>1. p + 1 \in DOMAIN body /\ (p + 1) - 1 = p
          BY <1>1
      <4> QED
          BY <1>1, <4>1 DEF Opens
    <3> QED
        BY <2>3, <3>1
  <2>15. PICK text, got : /\ text = EventText(kind, cur)
                          /\ got = IF kind = "ollama" THEN EmitLine(r.ps, text, Docs) ELSE Emit(r.ps, text, Docs)
      OBVIOUS
  <2>16. Feed(r, c, Docs) =
            IF ~EventEnds(kind, cur) THEN [r EXCEPT !.skip = FALSE, !.ps.partial = cur]
            ELSE IF text = <<>> THEN [r EXCEPT !.skip = TRUE, !.ps.partial = <<>>]
            ELSE [st |-> got.st, skip |-> TRUE, out |-> r.out \o got.out,
                  ps |-> [got.ps EXCEPT !.partial = <<>>, !.failed = got.st # "ok"]]
    <3>1. ~(r.st # "ok" \/ (r.skip /\ IsBreak(c)))
        BY <1>3, <2>9, <2>14
    <3>2. Append(r.ps.partial, c) = cur
        BY <2>9, <2>12
    <3> QED
        BY <2>9, <2>15, <3>1, <3>2, Zenon DEF Feed
  <2>17. CASE p + 1 \notin marks
    <3>1. Feed(r, c, Docs) = [r EXCEPT !.skip = FALSE, !.ps.partial = cur]
        BY <2>13, <2>16, <2>17
    <3>2. Feed(r, c, Docs) = [st |-> "ok", skip |-> FALSE, ps |-> Parser(kind, cur, FALSE), out |-> o]
      <4>1. PlainRun(r, kind, x, skip, o)
          BY <2>3, <2>8, Zenon DEF PlainRun
      <4>2. GoneOn(r, kind, cur, o)
          BY <4>1, GoesOn
      <4> QED
          BY <3>1, <4>2, Zenon DEF GoneOn
    <3>3. FirstSymbol(marks, (p + 1) + 1) = f
        BY <2>17, FirstStays
    <3>4. DoneAt(kind, body, p + 1) = FALSE
        BY <2>17, Zenon DEF DoneAt
    <3>5. ParserAt(kind, body, p + 1) = Parser(kind, cur, FALSE)
        BY <2>11, <3>3, <3>4 DEF ParserAt
    <3>6. TellsAt(kind, body, p + 1) = <<>> /\ <<>> \in Seq(E)
        BY <2>17 DEF TellsAt
    <3>7. Told(kind, body, p) \in Seq(E)
        BY <2>1 DEF Settled
    <3>8. Told(kind, body, p + 1) = Told(kind, body, p) \o <<>> /\ Told(kind, body, p + 1) \in Seq(E)
        BY <3>6, <3>7, ToldMore
    <3>9. Told(kind, body, p + 1) = Told(kind, body, p)
        BY <3>7, <3>8, ConcatEmptySeq
    <3>10. Settled(kind, body, p + 1)
        BY <2>1, <3>3, <3>8, <3>9 DEF Settled
    <3>11. t \o o = OutAt(kind, body, p + 1)
        BY <2>6, <3>4, <3>9 DEF OutAt
    <3> QED
        BY <3>2, <3>5, <3>10, <3>11 DEF Reads
  <2>18. CASE p + 1 \in marks
    <3>1. text = TextAt(kind, body, p + 1) /\ text # <<>>
        BY <2>13, <2>15, <2>18
    <3>2. Feed(r, c, Docs) = [st |-> got.st, skip |-> TRUE, out |-> o \o got.out,
                              ps |-> [got.ps EXCEPT !.partial = <<>>, !.failed = got.st # "ok"]]
        BY <2>9, <2>13, <2>16, <2>18, <3>1
    <3>3. Feed(r, c, Docs).st = got.st
        BY <3>2
    <3> SUFFICES ASSUME got.st = "ok" PROVE Reads(kind, body, t, Feed(r, c, Docs), p + 1)
        BY <3>3 DEF Reads
    <3>4. Gives(kind, x, text, got)
      <4>1. CASE kind = "ollama"
          BY <2>9, <2>15, <4>1, EmitLineGives
      <4>2. CASE kind # "ollama"
          BY <2>9, <2>15, <4>2, EmitGives
      <4> QED
          BY <4>1, <4>2
    <3>5. /\ Listy(Tells(kind, text)) /\ got.out = Shown(kind, text)
          /\ got.ps = Parser(kind, x, Announces(kind, text))
        BY <3>4 DEF Gives
    <3>6. PICK spoken : spoken = Tells(kind, text)
        OBVIOUS
    <3>7. TellsAt(kind, body, p + 1) = spoken
        BY <2>18, <3>1, <3>6 DEF TellsAt
    <3>8. spoken \in Seq(E)
      <4>1. p + 1 \in DOMAIN body
          BY <1>1
      <4>2. ItemsOf(spoken) \subseteq E
          BY <3>7, <4>1 DEF EventsIn
      <4> QED
          BY <3>5, <3>6, <4>2, ItemsSeq
    <3>9. Told(kind, body, p) \in Seq(E)
        BY <2>1 DEF Settled
    <3>10. Told(kind, body, p + 1) = Told(kind, body, p) \o spoken /\ Told(kind, body, p + 1) \in Seq(E)
        BY <3>7, <3>8, <3>9, ToldMore
    <3>11. DoneAt(kind, body, p + 1) = Announces(kind, text)
      <4>1. Announces(kind, text) => p + 1 = Len(body)
          BY <1>20, <2>18, <3>1, Zenon DEF WellFormed
      <4>2. Announces(kind, text) \in BOOLEAN /\ DoneAt(kind, body, p + 1) \in BOOLEAN
          BY Zenon DEF Announces, DoneAt
      <4>3. DoneAt(kind, body, p + 1) <=> Announces(kind, text)
          BY <2>18, <3>1, <4>1 DEF DoneAt
      <4> QED
          BY <4>2, <4>3, Zenon
    <3>12. FirstSymbol(marks, (p + 1) + 1) = (p + 1) + 1
        BY <2>18, FirstMoves
    <3>13. SubSeq(body, (p + 1) + 1, p + 1) = <<>>
        BY <1>1, NoPiece
    <3>14. ParserAt(kind, body, p + 1) = Parser(kind, <<>>, Announces(kind, text))
        BY <3>11, <3>12, <3>13 DEF ParserAt
    <3>15. [got.ps EXCEPT !.partial = <<>>, !.failed = got.st # "ok"] = Parser(kind, <<>>, Announces(kind, text))
      <4>1. (got.st # "ok") = FALSE
          BY Zenon
      <4>2. StartedAgain(got.ps, kind, Announces(kind, text))
          BY <3>5, StartsAgain
      <4> QED
          BY <4>1, <4>2, Zenon DEF StartedAgain
    <3>16. <<DoneEvent>> \in Seq(E)
      <4>1. DoneEvent \in E
          BY DEF EventsIn
      <4> HIDE DEF E
      <4> QED
          BY <4>1
    <3>17. got.out \in Seq(E)
        BY <3>5, <3>6, <3>8, <3>16, ConcatProperties DEF Shown
    <3>18. o \o got.out \in Seq(E)
        BY <3>17, ConcatProperties
    <3>19. t \o (o \o got.out) = Told(kind, body, p) \o got.out
      <4>0. PICK q \in Seq(E) : q = got.out
          BY <3>17
      <4>1. (t \o o) \o q = t \o (o \o q)
          BY ConcatAssociative
      <4> QED
          BY <2>6, <4>0, <4>1
    <3>20. Told(kind, body, p) \o got.out = OutAt(kind, body, p + 1)
      <4>1. CASE Announces(kind, text)
        <5>1. got.out = spoken \o <<DoneEvent>>
            BY <3>5, <3>6, <4>1 DEF Shown
        <5>2. Told(kind, body, p) \o (spoken \o <<DoneEvent>>) = (Told(kind, body, p) \o spoken) \o <<DoneEvent>>
            BY <3>8, <3>9, <3>16, ConcatAssociative
        <5> QED
            BY <3>10, <3>11, <4>1, <5>1, <5>2 DEF OutAt
      <4>2. CASE ~Announces(kind, text)
          BY <3>5, <3>6, <3>10, <3>11, <4>2 DEF OutAt, Shown
      <4> QED
          BY <4>1, <4>2
    <3>21. Settled(kind, body, p + 1)
      <4>1. ((p + 1) + 1) - 1 = p + 1
          OBVIOUS
      <4> QED
          BY <3>10, <3>12, <4>1 DEF Settled
    <3>22. Feed(r, c, Docs) = [st |-> "ok", skip |-> TRUE, ps |-> ParserAt(kind, body, p + 1), out |-> o \o got.out]
        BY <3>2, <3>14, <3>15
    <3> QED
        BY <2>18, <3>18, <3>19, <3>20, <3>21, <3>22 DEF Reads
  <2> QED
      BY <2>17, <2>18
<1> QED
    BY <1>2, <1>3

-----------------------------------------------------------------------------
(* A push is a run of the cutting loop.                                    *)
CutBegun(ps) == [st |-> "ok", skip |-> FALSE, ps |-> [ps EXCEPT !.partial = <<>>], out |-> <<>>]
Cuts(ps, s, m, c) ==
    c = [i \in 0..m |-> IF i = 0 THEN {CutBegun(ps)} ELSE {Feed(r, s[i], Docs) : r \in c[i - 1]}]

LEMMA CutRuns ==
    ASSUME NEW ps, NEW s, NEW N \in Nat, N = Len(s)
    PROVE  \E c : Cuts(ps, s, N, c) /\ CutEvents(ps, s, Docs) = CHOOSE r \in c[N] : TRUE
<1> DEFINE G == {m \in 0..N : \E c : Cuts(ps, s, m, c)}
<1>1. 0 \in G
  <2>1. PICK c : c = [i \in 0..0 |-> {CutBegun(ps)}]
      OBVIOUS
  <2>2. Cuts(ps, s, 0, c)
    <3>1. \A i \in 0..0 : i = 0
        OBVIOUS
    <3>2. [i \in 0..0 |-> {CutBegun(ps)}] = [i \in 0..0 |-> IF i = 0 THEN {CutBegun(ps)} ELSE {Feed(r, s[i], Docs) : r \in c[i - 1]}]
        BY <3>1
    <3> QED
        BY <2>1, <3>2 DEF Cuts
  <2> QED
      BY <2>2
<1>2. ASSUME NEW m \in 1..N, m - 1 \in G PROVE m \in G
  <2>1. PICK c : Cuts(ps, s, m - 1, c)
      BY <1>2
  <2>2. PICK v : v = {Feed(r, s[m], Docs) : r \in c[m - 1]}
      OBVIOUS
  <2>3. PICK h : h = [i \in 0..m |-> IF i = m THEN v ELSE c[i]]
      OBVIOUS
  <2>4. \A i \in 0..(m - 1) : h[i] = c[i]
      BY <2>3
  <2>5. ASSUME NEW i \in 0..m
        PROVE  h[i] = IF i = 0 THEN {CutBegun(ps)} ELSE {Feed(r, s[i], Docs) : r \in h[i - 1]}
    <3>1. CASE i = m
      <4>1. h[i] = v /\ i # 0 /\ i - 1 \in 0..(m - 1)
          BY <2>3, <3>1
      <4>2. h[i - 1] = c[m - 1]
          BY <2>4, <3>1, <4>1
      <4> QED
          BY <2>2, <3>1, <4>1, <4>2
    <3>2. CASE i # m
      <4>1. i \in 0..(m - 1) /\ (i # 0 => i - 1 \in 0..(m - 1))
          BY <3>2
      <4>2. c[i] = IF i = 0 THEN {CutBegun(ps)} ELSE {Feed(r, s[i], Docs) : r \in c[i - 1]}
          BY <2>1, <4>1 DEF Cuts
      <4>3. h[i] = c[i] /\ (i # 0 => h[i - 1] = c[i - 1])
          BY <2>4, <4>1
      <4> QED
          BY <4>2, <4>3
    <3> QED
        BY <3>1, <3>2
  <2>6. Cuts(ps, s, m, h)
      BY <2>3, <2>5 DEF Cuts
  <2> QED
      BY <2>6
<1>3. \E c : Cuts(ps, s, N, c)
  <2>1. N \in G
    <3> HIDE DEF G
    <3> QED
        BY <1>1, <1>2, UpTo
  <2> QED
      BY <2>1
<1>4. PICK c : Cuts(ps, s, N, c) /\ c = CHOOSE d : Cuts(ps, s, N, d)
    BY <1>3
<1>5. CutEvents(ps, s, Docs) = CHOOSE r \in c[N] : TRUE
    BY <1>4 DEF CutEvents, Cuts, CutBegun
<1> QED
    BY <1>4, <1>5

Follows(c, s, m) == \A v : c[m - 1] = {v} => c[m] = {Feed(v, s[m], Docs)}

LEMMA CutStep ==
    ASSUME NEW ps, NEW s, NEW N \in Nat, NEW c, Cuts(ps, s, N, c), NEW m \in 1..N
    PROVE  Follows(c, s, m)
<1>1. m \in 0..N /\ m # 0
    OBVIOUS
<1>2. c[m] = IF m = 0 THEN {CutBegun(ps)} ELSE {Feed(r, s[m], Docs) : r \in c[m - 1]}
    BY <1>1 DEF Cuts
<1> QED
    BY <1>1, <1>2 DEF Follows

Alike(s, body, b, n) == \A i \in 1..n : s[i] = body[b + i]
ReadTo(kind, body, t, v, p) == \E r : v = {r} /\ Reads(kind, body, t, r, p)

LEMMA CutReads ==
    ASSUME NEW S, NEW body \in Seq(S), NEW kind, WellFormed(kind, body), NEW t \in Seq(EventsIn(kind, body)),
           NEW ps, NEW s, NEW N \in Nat, NEW b \in Nat, b + N <= Len(body), NEW c, Cuts(ps, s, N, c),
           Alike(s, body, b, N), Reads(kind, body, t, CutBegun(ps), b)
    PROVE  ReadTo(kind, body, t, c[N], b + N)
<1> DEFINE G == {m \in 0..N : \E r : c[m] = {r} /\ Reads(kind, body, t, r, b + m)}
<1>1. 0 \in G
  <2>1. c[0] = {CutBegun(ps)} /\ b + 0 = b
      BY DEF Cuts
  <2> QED
      BY <2>1
<1>2. ASSUME NEW m \in 1..N, m - 1 \in G PROVE m \in G
  <2>1. PICK r : c[m - 1] = {r} /\ Reads(kind, body, t, r, b + (m - 1))
      BY <1>2
  <2>2. PICK q : q = Feed(r, s[m], Docs)
      OBVIOUS
  <2>3. Follows(c, s, m)
      BY CutStep
  <2>4. c[m] = {q}
      BY <2>1, <2>2, <2>3, Zenon DEF Follows
  <2>5. PICK p : p = b + (m - 1)
      OBVIOUS
  <2>6. p \in Nat /\ p < Len(body) /\ p + 1 = b + m
      BY <2>5, LenProperties
  <2>7. s[m] = body[p + 1]
      BY <2>6 DEF Alike
  <2>8. Reads(kind, body, t, q, p + 1)
      BY <2>1, <2>2, <2>5, <2>6, <2>7, FeedReads
  <2>9. Reads(kind, body, t, q, b + m) /\ m \in 0..N
      BY <2>6, <2>8
  <2>10. \E x : c[m] = {x} /\ Reads(kind, body, t, x, b + m)
      BY <2>4, <2>9, Zenon
  <2> QED
      BY <2>9, <2>10, Zenon
<1>3. N \in G
  <2> HIDE DEF G
  <2> QED
      BY <1>1, <1>2, UpTo
<1> QED
    BY <1>3 DEF ReadTo

LEMMA PieceJoin ==
    ASSUME NEW S, NEW body \in Seq(S), NEW k \in Nat, NEW n \in Nat, k + n <= Len(body), NEW b \in 0..k,
           NEW s, s = SubSeq(body, b + 1, k) \o SubSeq(body, k + 1, k + n)
    PROVE  Len(s) = (k - b) + n /\ \A i \in 1..((k - b) + n) : s[i] = body[b + i]
<1>1. PICK x, y, l : x = SubSeq(body, b + 1, k) /\ y = SubSeq(body, k + 1, k + n) /\ l = k - b
    OBVIOUS
<1>2. /\ Len(body) \in Nat /\ k \in 0..Len(body) /\ k + n \in 0..Len(body) /\ b + 1 \in 1..(k + 1)
      /\ k + 1 \in 1..((k + n) + 1) /\ l \in Nat
    BY <1>1, LenProperties
<1>3. PieceOf(S, body, b + 1, k, x) /\ PieceOf(S, body, k + 1, k + n, y)
    BY <1>1, <1>2, PieceIs
<1>4. x \in Seq(S) /\ Len(x) = l /\ \A i \in 1..l : x[i] = body[b + i]
  <2>1. k + 1 - (b + 1) = l /\ \A i \in 1..l : (b + 1) + i - 1 = b + i
      BY <1>1, <1>2
  <2> QED
      BY <1>3, <2>1 DEF PieceOf
<1>5. y \in Seq(S) /\ Len(y) = n /\ \A i \in 1..n : y[i] = body[k + i]
  <2>1. (k + n) + 1 - (k + 1) = n /\ \A i \in 1..n : (k + 1) + i - 1 = k + i
      BY <1>2
  <2> QED
      BY <1>3, <2>1 DEF PieceOf
<1>6. /\ Len(s) = l + n
      /\ \A i \in 1..(l + n) : s[i] = IF i <= l THEN x[i] ELSE y[i - l]
    BY <1>1, <1>2, <1>4, <1>5, ConcatProperties
<1>7. ASSUME NEW i \in 1..(l + n) PROVE s[i] = body[b + i]
  <2>1. CASE i <= l
    <3>1. i \in 1..l
        BY <1>2, <2>1
    <3> QED
        BY <1>4, <1>6, <2>1, <3>1
  <2>2. CASE ~(i <= l)
    <3>1. i - l \in 1..n /\ k + (i - l) = b + i
        BY <1>1, <1>2, <2>2
    <3> QED
        BY <1>5, <1>6, <2>2, <3>1
  <2> QED
      BY <2>1, <2>2
<1> QED
    BY <1>1, <1>6, <1>7

LEMMA ParserFields ==
    ASSUME NEW kind, NEW x, NEW d, NEW ps, ps = Parser(kind, x, d)
    PROVE  ps.kind = kind /\ ps.partial = x /\ ps.done = d /\ ~ps.failed
    BY DEF Parser

(* The buffer before the event that is being read.                         *)
LEMMA BeforeEvent ==
    ASSUME NEW S, NEW body \in Seq(S), NEW kind, NEW k \in Nat, k < Len(body), NEW b,
           b = FirstSymbol(EndsOf(kind, body), k + 1) - 1
    PROVE  b \in 0..k /\ FirstSymbol(EndsOf(kind, body), k + 1) = b + 1
           /\ FirstSymbol(EndsOf(kind, body), b + 1) = b + 1
<1>1. PICK l, f : l = k + 1 /\ f = FirstSymbol(EndsOf(kind, body), l)
    OBVIOUS
<1>2. l \in Nat /\ l # 0
    BY <1>1
<1>3. f \in 1..l /\ (f = 1 \/ f - 1 \in EndsOf(kind, body))
    BY <1>1, <1>2, FirstIs, FirstAfter
<1>4. b \in 0..k /\ f = b + 1 /\ (b = 0 \/ b \in EndsOf(kind, body)) /\ b \in Nat
    BY <1>1, <1>2, <1>3
<1>5. FirstSymbol(EndsOf(kind, body), b + 1) = b + 1
    BY <1>4, FirstMoves
<1> QED
    BY <1>1, <1>4, <1>5

IsPlain(ps, kind, x) == ps = Parser(kind, x, FALSE)
Emptied(ps, kind) == [ps EXCEPT !.partial = <<>>] = Parser(kind, <<>>, FALSE)

LEMMA BufferEmptied ==
    ASSUME NEW kind, NEW x, NEW ps, IsPlain(ps, kind, x)
    PROVE  Emptied(ps, kind)
<1>1. PICK y : y = <<>>
    OBVIOUS
<1>2. ps = ParserOf(kind, x, No, No)
    BY Zenon DEF IsPlain, Parser, ParserOf, No
<1>3. WithPartial(ps, y) = ParserOf(kind, y, No, No)
    BY <1>2, ParserChanges
<1> QED
    BY <1>1, <1>3, Zenon DEF Emptied, Parser, ParserOf, WithPartial, No

LEMMA BegunReads ==
    ASSUME NEW S, NEW body \in Seq(S), NEW kind, NEW b \in Nat, b < Len(body), NEW x,
           FirstSymbol(EndsOf(kind, body), b + 1) = b + 1, Told(kind, body, b) \in Seq(EventsIn(kind, body)),
           NEW ps, IsPlain(ps, kind, x)
    PROVE  Reads(kind, body, Told(kind, body, b), CutBegun(ps), b)
<1>1. Len(body) \in Nat /\ b \in 0..Len(body) /\ b # Len(body) /\ (b + 1) - 1 = b
    BY LenProperties
<1>2. Settled(kind, body, b)
    BY <1>1 DEF Settled
<1>3. DoneAt(kind, body, b) = FALSE
    BY <1>1, Zenon DEF DoneAt
<1>4. SubSeq(body, b + 1, b) = <<>>
    BY <1>1, NoPiece
<1>5. ParserAt(kind, body, b) = Parser(kind, <<>>, FALSE)
    BY <1>3, <1>4, Zenon DEF ParserAt
<1>6. OutAt(kind, body, b) = Told(kind, body, b)
    BY <1>3, Zenon DEF OutAt
<1>7. Told(kind, body, b) \o <<>> = OutAt(kind, body, b)
    BY <1>6, ConcatEmptySeq
<1>8. <<>> \in Seq(EventsIn(kind, body))
    OBVIOUS
<1>9. Emptied(ps, kind)
    BY BufferEmptied
<1>10. CutBegun(ps) = [st |-> "ok", skip |-> FALSE, ps |-> ParserAt(kind, body, b), out |-> <<>>]
    BY <1>5, <1>9, Zenon DEF CutBegun, Emptied
<1>11. FALSE => b \in EndsOf(kind, body)
    OBVIOUS
<1>12. \E o \in Seq(EventsIn(kind, body)) :
              /\ CutBegun(ps) = [st |-> "ok", skip |-> FALSE, ps |-> ParserAt(kind, body, b), out |-> o]
              /\ FALSE => b \in EndsOf(kind, body)
              /\ Told(kind, body, b) \o o = OutAt(kind, body, b)
    BY <1>7, <1>8, <1>10, Zenon
<1> QED
    BY <1>2, <1>12, Zenon DEF Reads

(* A push that fails nothing reads on where the last one stopped.          *)
Pushed(kind, body, k, l, got) ==
    /\ Settled(kind, body, l) /\ got.ps = ParserAt(kind, body, l) /\ got.out \in Seq(EventsIn(kind, body))
    /\ OutAt(kind, body, k) \o got.out = OutAt(kind, body, l)

LEMMA PlainFields ==
    ASSUME NEW kind, NEW x, NEW ps, IsPlain(ps, kind, x)
    PROVE  ps.kind = kind /\ ps.partial = x /\ ~ps.failed /\ ~ps.done
<1>1. ps = Parser(kind, x, No)
    BY Zenon DEF IsPlain, No
<1>2. ps.kind = kind /\ ps.partial = x /\ ps.done = No /\ ~ps.failed
    BY <1>1, ParserFields
<1> QED
    BY <1>2, Zenon DEF No

LEMMA PushCuts ==
    ASSUME NEW kind, NEW x, NEW ps, IsPlain(ps, kind, x), NEW chunk, NEW got, got = Push(ps, chunk, MaxPartial, Docs),
           got.st = "ok"
    PROVE  got = CutEvents(ps, x \o chunk, Docs)
<1>1. ps.partial = x /\ ~ps.failed
    BY PlainFields
<1>2. CASE Len(x) + Len(chunk) > MaxPartial
  <2>1. got = [st |-> "invalid_argument", ps |-> [ps EXCEPT !.failed = TRUE], out |-> <<>>]
      BY <1>1, <1>2, Zenon DEF Push
  <2>2. PICK v, w : got = [st |-> "invalid_argument", ps |-> v, out |-> w]
      BY <2>1, Zenon
  <2> HIDE <2>1
  <2>3. got.st = "invalid_argument"
      BY <2>2
  <2> QED
      BY <2>3
<1> QED
    BY <1>1, <1>2, Zenon DEF Push

LEMMA PushReads ==
    ASSUME NEW S, NEW body \in Seq(S), NEW kind, WellFormed(kind, body), NEW k \in Nat, NEW n \in Nat, n # 0,
           k + n <= Len(body), Settled(kind, body, k), NEW ps, ps = ParserAt(kind, body, k), NEW chunk,
           chunk = SubSeq(body, k + 1, k + n), NEW got, got = Push(ps, chunk, MaxPartial, Docs), got.st = "ok"
    PROVE  Pushed(kind, body, k, k + n, got)
<1>1. Len(body) \in Nat /\ k < Len(body) /\ k # Len(body)
    BY LenProperties
<1>2. DoneAt(kind, body, k) = FALSE
    BY <1>1, Zenon DEF DoneAt
<1>3. PICK b : b = FirstSymbol(EndsOf(kind, body), k + 1) - 1
    OBVIOUS
<1>4. /\ b \in 0..k /\ FirstSymbol(EndsOf(kind, body), k + 1) = b + 1
      /\ FirstSymbol(EndsOf(kind, body), b + 1) = b + 1
    BY <1>1, <1>3, BeforeEvent
<1>5. PICK x : x = SubSeq(body, b + 1, k)
    OBVIOUS
<1>6. IsPlain(ps, kind, x)
    BY <1>2, <1>4, <1>5, Zenon DEF IsPlain, ParserAt
<1>7. OutAt(kind, body, k) = Told(kind, body, k)
    BY <1>2, Zenon DEF OutAt
<1>8. PICK t : t = Told(kind, body, b)
    OBVIOUS
<1>9. t = Told(kind, body, k) /\ t \in Seq(EventsIn(kind, body))
    BY <1>3, <1>8 DEF Settled
<1>10. b \in Nat /\ b < Len(body)
    BY <1>1, <1>4
<1>11. Reads(kind, body, t, CutBegun(ps), b)
    BY <1>4, <1>6, <1>8, <1>9, <1>10, BegunReads
<1>12. PICK s, N : s = x \o chunk /\ N = (k - b) + n
    OBVIOUS
<1>13. Len(s) = N /\ Alike(s, body, b, N)
    BY <1>4, <1>5, <1>12, PieceJoin DEF Alike
<1>14. N \in Nat /\ b + N = k + n /\ b + N <= Len(body)
    BY <1>4, <1>12
<1>15. PICK c : Cuts(ps, s, N, c) /\ CutEvents(ps, s, Docs) = CHOOSE r \in c[N] : TRUE
    BY <1>13, <1>14, CutRuns
<1>16. got = CutEvents(ps, s, Docs)
    BY <1>6, <1>12, PushCuts
<1>170. ReadTo(kind, body, t, c[N], b + N)
    BY <1>9, <1>10, <1>11, <1>13, <1>14, <1>15, CutReads
<1>17. PICK r : c[N] = {r} /\ Reads(kind, body, t, r, b + N)
    BY <1>170 DEF ReadTo
<1>18. got = r
    BY <1>15, <1>16, <1>17
<1>19. /\ Settled(kind, body, k + n)
       /\ \E skip : \E o \in Seq(EventsIn(kind, body)) :
              /\ got = [st |-> "ok", skip |-> skip, ps |-> ParserAt(kind, body, k + n), out |-> o]
              /\ skip => k + n \in EndsOf(kind, body)
              /\ t \o o = OutAt(kind, body, k + n)
  <2>1. Reads(kind, body, t, got, k + n)
      BY <1>14, <1>17, <1>18
  <2> QED
      BY <2>1, Zenon DEF Reads
<1>20. PICK skip, o : /\ o \in Seq(EventsIn(kind, body))
                      /\ got = [st |-> "ok", skip |-> skip, ps |-> ParserAt(kind, body, k + n), out |-> o]
                      /\ t \o o = OutAt(kind, body, k + n)
    BY <1>19, Zenon
<1>21. got.ps = ParserAt(kind, body, k + n) /\ got.out = o
    BY <1>20
<1> QED
    BY <1>7, <1>9, <1>19, <1>20, <1>21 DEF Pushed

-----------------------------------------------------------------------------
(* The end of the stream.                                                  *)
LastOf(ps) ==
    IF ps.kind = "ollama" /\ ps.partial # <<>> THEN EmitLine(ps, ps.partial, Docs)
    ELSE [st |-> "ok", ps |-> ps, out |-> <<>>]

LEMMA FinishEnds ==
    ASSUME NEW ps, ~ps.failed, ps.kind = "ollama" \/ ps.partial = <<>>, NEW end, end = FinishStream(ps, Docs),
           end.st = "ok", NEW last, last = LastOf(ps)
    PROVE  last.st = "ok" /\ end.out = IF last.ps.done THEN last.out ELSE Append(last.out, DoneEvent)
<1>1. end = IF last.st # "ok" \/ last.ps.done THEN last
            ELSE [st |-> "ok", out |-> Append(last.out, DoneEvent), ps |-> [last.ps EXCEPT !.done = TRUE, !.partial = <<>>]]
    BY Zenon DEF FinishStream, LastOf
<1>2. CASE last.st # "ok" \/ last.ps.done
    BY <1>1, <1>2
<1>3. CASE ~(last.st # "ok" \/ last.ps.done)
  <2>1. end = [st |-> "ok", out |-> Append(last.out, DoneEvent), ps |-> [last.ps EXCEPT !.done = TRUE, !.partial = <<>>]]
      BY <1>1, <1>3, Zenon
  <2>2. PICK v, w : end = [st |-> "ok", out |-> w, ps |-> v] /\ w = Append(last.out, DoneEvent)
      BY <2>1, Zenon
  <2> HIDE <1>1, <2>1
  <2>3. end.out = w
      BY <2>2
  <2> QED
      BY <1>3, <2>2, <2>3
<1> QED
    BY <1>2, <1>3

LEMMA MeaningIs ==
    ASSUME NEW S, NEW body \in Seq(S), NEW kind
    PROVE  Meaning(kind, body) =
               (IF Len(body) \in EndsOf(kind, body) THEN Told(kind, body, Len(body))
                ELSE Told(kind, body, Len(body)) \o Tells(kind, LastLine(kind, body))) \o <<DoneEvent>>
<1>1. DOMAIN body = 1..Len(body)
    BY LenProperties
<1>2. [k \in DOMAIN body |-> IF k \in EndsOf(kind, body) THEN Tells(kind, TextAt(kind, body, k)) ELSE <<>>]
        = [k \in 1..Len(body) |-> TellsAt(kind, body, k)]
    BY <1>1 DEF TellsAt
<1> QED
    BY <1>2, Zenon DEF Meaning, Told

LEMMA FinishReads ==
    ASSUME NEW S, NEW body \in Seq(S), NEW kind, WellFormed(kind, body), body # <<>>, Settled(kind, body, Len(body)),
           NEW ps, ps = ParserAt(kind, body, Len(body)), NEW end, end = FinishStream(ps, Docs), end.st = "ok"
    PROVE  OutAt(kind, body, Len(body)) \o end.out = Meaning(kind, body) /\ end.out \in Seq(EventsIn(kind, body))
<1> DEFINE E == EventsIn(kind, body)
           marks == EndsOf(kind, body)
<1>1. PICK l : l = Len(body)
    OBVIOUS
<1>2. l \in Nat /\ l # 0 /\ l \in 0..Len(body)
    BY <1>1, LenProperties, EmptySeq
<1>3. PICK x, d, spoken : /\ x = SubSeq(body, FirstSymbol(marks, l + 1), l) /\ d = DoneAt(kind, body, l)
                        /\ spoken = Told(kind, body, l)
    OBVIOUS
<1>4. ps = Parser(kind, x, d)
    BY <1>1, <1>3 DEF ParserAt
<1>5. ps.kind = kind /\ ps.partial = x /\ ps.done = d /\ ~ps.failed
    BY <1>4, ParserFields
<1>6. spoken \in Seq(E)
    BY <1>1, <1>3 DEF Settled
<1>7. DoneEvent \in E
    BY DEF EventsIn
<1>8. PICK e \in E : e = DoneEvent
    BY <1>7
<1> HIDE DEF E
<1>9. <<e>> \in Seq(E) /\ <<>> \in Seq(E)
    OBVIOUS
<1>10. OutAt(kind, body, l) = IF d THEN spoken \o <<e>> ELSE spoken
    BY <1>3, <1>8 DEF OutAt
<1>11. Meaning(kind, body) = (IF l \in marks THEN spoken ELSE spoken \o Tells(kind, LastLine(kind, body))) \o <<e>>
    BY <1>1, <1>3, <1>8, MeaningIs
<1>12. CASE l \in marks
  <2>1. x = <<>>
    <3>1. FirstSymbol(marks, l + 1) = l + 1
        BY <1>2, <1>12, FirstMoves
    <3>2. SubSeq(body, l + 1, l) = <<>>
        BY <1>2, NoPiece
    <3> QED
        BY <1>3, <3>1, <3>2
  <2>2. PICK last : last = LastOf(ps)
      OBVIOUS
  <2>3. last = [st |-> "ok", ps |-> ps, out |-> <<>>]
      BY <1>5, <2>1, <2>2 DEF LastOf
  <2>4. last.out = <<>> /\ last.ps = ps
      BY <2>3
  <2>5. end.out = IF last.ps.done THEN last.out ELSE Append(last.out, DoneEvent)
      BY <1>5, <2>1, <2>2, FinishEnds
  <2>6. end.out = IF d THEN <<>> ELSE <<e>>
    <3>1. Append(<<>>, e) = <<e>>
        OBVIOUS
    <3> QED
        BY <1>5, <1>8, <2>4, <2>5, <3>1
  <2>7. (spoken \o <<e>>) \o <<>> = spoken \o <<e>>
    <3>1. spoken \o <<e>> \in Seq(E)
        BY <1>6, <1>9, ConcatProperties
    <3> QED
        BY <3>1, ConcatEmptySeq
  <2>10. end.out \in Seq(EventsIn(kind, body))
      BY <1>9, <2>6 DEF E
  <2>8. CASE d
      BY <2>10, <1>1, <1>10, <1>11, <1>12, <2>6, <2>7, <2>8
  <2>9. CASE ~d
      BY <2>10, <1>1, <1>10, <1>11, <1>12, <2>6, <2>9
  <2> QED
      BY <2>8, <2>9
<1>13. CASE l \notin marks
  <2>1. kind = "ollama"
      BY <1>1, <1>13 DEF WellFormed
  <2>2. d = FALSE
      BY <1>3, <1>13, Zenon DEF DoneAt
  <2>3. x = LastLine(kind, body)
      BY <1>1, <1>3 DEF LastLine
  <2>4. x # <<>>
    <3>1. PICK f : f = FirstSymbol(marks, l)
        OBVIOUS
    <3>2. f \in 1..l /\ FirstSymbol(marks, l + 1) = f
        BY <1>2, <1>13, <3>1, FirstIs, FirstStays
    <3>3. f \in 1..(l + 1) /\ l + 1 - f # 0
        BY <1>2, <3>2
    <3>4. PieceOf(S, body, f, l, x)
        BY <1>2, <1>3, <3>2, <3>3, PieceIs
    <3>5. x \in Seq(S) /\ Len(x) # 0
        BY <3>3, <3>4 DEF PieceOf
    <3> QED
        BY <3>5, EmptySeq
  <2>5. PICK last : last = LastOf(ps)
      OBVIOUS
  <2>6. last = EmitLine(ps, x, Docs)
      BY <1>5, <2>1, <2>4, <2>5 DEF LastOf
  <2>7. last.st = "ok" /\ end.out = IF last.ps.done THEN last.out ELSE Append(last.out, DoneEvent)
      BY <1>5, <2>1, <2>5, FinishEnds
  <2>8. Gives(kind, x, x, last)
    <3>1. last = EmitLine(Parser("ollama", x, FALSE), x, Docs)
        BY <1>4, <2>1, <2>2, <2>6, Zenon
    <3> QED
        BY <2>1, <3>1, EmitLineGives, Zenon
  <2>9. PICK a, u : a = Announces(kind, x) /\ u = Tells(kind, x)
      OBVIOUS
  <2>10. Listy(u) /\ last.out = (IF a THEN u \o <<e>> ELSE u) /\ last.ps = Parser(kind, x, a)
      BY <1>8, <2>7, <2>8, <2>9, Zenon DEF Gives, Shown
  <2>11. last.ps.done = a
      BY <2>10, ParserFields
  <2>12. u \in Seq(E)
    <3>1. ItemsOf(u) \subseteq E
        BY <2>3, <2>9 DEF EventsIn, E
    <3> QED
        BY <2>10, <3>1, ItemsSeq
  <2>13. end.out = u \o <<e>>
    <3>1. Append(u, e) = u \o <<e>>
        BY <2>12, AppendIsConcat
    <3> QED
        BY <1>8, <2>7, <2>10, <2>11, <3>1
  <2>14. spoken \o (u \o <<e>>) = (spoken \o u) \o <<e>>
      BY <1>6, <1>9, <2>12, ConcatAssociative
  <2>15. end.out \in Seq(EventsIn(kind, body))
    <3>1. u \o <<e>> \in Seq(E)
        BY <1>9, <2>12, ConcatProperties
    <3> QED
        BY <2>13, <3>1 DEF E
  <2> QED
      BY <2>15, <1>1, <1>10, <1>11, <1>13, <2>2, <2>3, <2>9, <2>13, <2>14
<1> QED
    BY <1>12, <1>13

(* Before the first symbol.                                                *)
LEMMA StreamBegins ==
    ASSUME NEW S, NEW body \in Seq(S), NEW kind
    PROVE  /\ Settled(kind, body, 0) /\ ParserAt(kind, body, 0) = NewParser(kind)
           /\ OutAt(kind, body, 0) = <<>>
<1>1. Len(body) \in Nat /\ DOMAIN body = 1..Len(body) /\ 0 \in 0..Len(body)
    BY LenProperties
<1>2. FirstSymbol(EndsOf(kind, body), 0 + 1) = 0 + 1
    BY FirstMoves
<1>3. SubSeq(body, 0 + 1, 0) = <<>>
    BY <1>1, NoPiece
<1>4. 0 \notin EndsOf(kind, body)
    BY <1>1 DEF EndsOf
<1>5. DoneAt(kind, body, 0) = FALSE
    BY <1>4, Zenon DEF DoneAt
<1>6. ParserAt(kind, body, 0) = NewParser(kind)
    BY <1>2, <1>3, <1>5, Zenon DEF ParserAt, Parser, NewParser
<1>7. Told(kind, body, 0) = <<>>
    BY NothingTold
<1>8. OutAt(kind, body, 0) = <<>>
    BY <1>5, <1>7, Zenon DEF OutAt
<1>9. (0 + 1) - 1 = 0 /\ <<>> \in Seq(EventsIn(kind, body))
    OBVIOUS
<1>10. Settled(kind, body, 0)
    BY <1>2, <1>7, <1>9 DEF Settled
<1> QED
    BY <1>6, <1>8, <1>10

(* The whole of a sequence, as a piece of it.                              *)
LEMMA WholeSeq ==
    ASSUME NEW S, NEW body \in Seq(S)
    PROVE  SubSeq(body, 0 + 1, Len(body)) = body /\ SubSeq(body, 0 + 1, 0 + Len(body)) = body
<1>1. PICK l, x : l = Len(body) /\ x = SubSeq(body, 1, l)
    OBVIOUS
<1>2. l \in Nat /\ l \in 0..Len(body) /\ 1 \in 1..(l + 1)
    BY <1>1, LenProperties
<1>3. PieceOf(S, body, 1, l, x)
    BY <1>1, <1>2, PieceIs
<1>4. l + 1 - 1 = l /\ \A i \in 1..l : 1 + i - 1 = i
    BY <1>2
<1>5. x \in Seq(S) /\ Len(x) = l /\ \A i \in 1..l : x[i] = body[i]
    BY <1>3, <1>4 DEF PieceOf
<1>6. x = body
    BY <1>1, <1>5, SeqEqual
<1>7. 0 + 1 = 1 /\ 0 + l = l
    BY <1>2
<1> QED
    BY <1>1, <1>6, <1>7

(* A stream in one piece.                                                  *)
LEMMA WholeReads ==
    ASSUME NEW S, NEW body \in Seq(S), NEW kind, WellFormed(kind, body), body # <<>>, NEW whole, NEW rest,
           whole = Push(NewParser(kind), body, MaxPartial, Docs), whole.st = "ok",
           rest = FinishStream(whole.ps, Docs), rest.st = "ok"
    PROVE  whole.out \o rest.out = Meaning(kind, body) /\ whole.out \o rest.out \in Seq(EventsIn(kind, body))
<1>1. PICK l : l = Len(body)
    OBVIOUS
<1>2. l \in Nat /\ l # 0 /\ 0 + l <= Len(body) /\ 0 + l = l
    BY <1>1, LenProperties, EmptySeq
<1>3. PICK ps : ps = NewParser(kind)
    OBVIOUS
<1>4. Settled(kind, body, 0) /\ ps = ParserAt(kind, body, 0) /\ OutAt(kind, body, 0) = <<>>
    BY <1>3, StreamBegins
<1>5. body = SubSeq(body, 0 + 1, 0 + l)
    BY <1>1, WholeSeq
<1>6. whole = Push(ps, body, MaxPartial, Docs)
    BY <1>3
<1>7. Pushed(kind, body, 0, 0 + l, whole)
  <2>1. PICK chunk : chunk = body
      OBVIOUS
  <2> QED
      BY <1>2, <1>4, <1>5, <1>6, <2>1, PushReads
<1>8. /\ Settled(kind, body, l) /\ whole.ps = ParserAt(kind, body, l) /\ whole.out \in Seq(EventsIn(kind, body))
      /\ OutAt(kind, body, 0) \o whole.out = OutAt(kind, body, l)
    BY <1>2, <1>7 DEF Pushed
<1>9. whole.out = OutAt(kind, body, l)
    BY <1>4, <1>8, ConcatEmptySeq
<1>10. OutAt(kind, body, l) \o rest.out = Meaning(kind, body) /\ rest.out \in Seq(EventsIn(kind, body))
    BY <1>1, <1>8, FinishReads
<1>11. whole.out \o rest.out \in Seq(EventsIn(kind, body))
    BY <1>8, <1>10, ConcatProperties
<1> QED
    BY <1>9, <1>10, <1>11

(* What is left after n more symbols.                                      *)
Remains(body, k, rem, n) ==
    /\ k + n <= Len(body) /\ SubSeq(rem, 1, n) = SubSeq(body, k + 1, k + n)
    /\ SubSeq(rem, n + 1, Len(rem)) = SubSeq(body, (k + n) + 1, Len(body))

LEMMA LeftOver ==
    ASSUME NEW S, NEW body \in Seq(S), NEW k \in 0..Len(body), NEW rem, rem = SubSeq(body, k + 1, Len(body))
    PROVE  /\ Len(rem) = Len(body) - k
           /\ \A n \in 1..Len(rem) : Remains(body, k, rem, n)
<1>1. PICK l, m : l = Len(body) /\ m = l - k
    OBVIOUS
<1>2. l \in Nat /\ k \in Nat /\ m \in Nat /\ l \in 0..Len(body) /\ k + 1 \in 1..(l + 1)
    BY <1>1, LenProperties
<1>3. PieceOf(S, body, k + 1, l, rem)
    BY <1>1, <1>2, PieceIs
<1>4. rem \in Seq(S) /\ Len(rem) = m /\ \A i \in 1..m : rem[i] = body[k + i]
  <2>1. l + 1 - (k + 1) = m /\ \A i \in 1..m : (k + 1) + i - 1 = k + i
      BY <1>1, <1>2
  <2> QED
      BY <1>3, <2>1 DEF PieceOf
<1>5. ASSUME NEW n \in 1..m
      PROVE  /\ k + n <= l /\ SubSeq(rem, 1, n) = SubSeq(body, k + 1, k + n)
             /\ SubSeq(rem, n + 1, m) = SubSeq(body, (k + n) + 1, l)
  <2>1. PICK x, y, v, w : /\ x = SubSeq(rem, 1, n) /\ y = SubSeq(body, k + 1, k + n)
                          /\ v = SubSeq(rem, n + 1, m) /\ w = SubSeq(body, (k + n) + 1, l)
      OBVIOUS
  <2>2. /\ n \in 0..Len(rem) /\ 1 \in 1..(n + 1) /\ k + n \in 0..Len(body) /\ k + 1 \in 1..((k + n) + 1)
        /\ m \in 0..Len(rem) /\ n + 1 \in 1..(m + 1) /\ (k + n) + 1 \in 1..(l + 1) /\ k + n <= l
      BY <1>1, <1>2, <1>4
  <2>3. PieceOf(S, rem, 1, n, x) /\ PieceOf(S, rem, n + 1, m, v)
      BY <1>4, <2>1, <2>2, PieceIs
  <2>4. PieceOf(S, body, k + 1, k + n, y) /\ PieceOf(S, body, (k + n) + 1, l, w)
      BY <1>2, <2>1, <2>2, PieceIs
  <2>5. /\ n + 1 - 1 = n /\ (k + n) + 1 - (k + 1) = n /\ m + 1 - (n + 1) = m - n /\ l + 1 - ((k + n) + 1) = m - n
        /\ \A i \in 1..n : 1 + i - 1 = i /\ (k + 1) + i - 1 = k + i /\ i \in 1..m
        /\ \A i \in 1..(m - n) : (n + 1) + i - 1 = n + i /\ ((k + n) + 1) + i - 1 = k + (n + i) /\ n + i \in 1..m
      BY <1>1, <1>2
  <2>6. x \in Seq(S) /\ Len(x) = n /\ \A i \in 1..n : x[i] = rem[i]
      BY <2>3, <2>5 DEF PieceOf
  <2>7. y \in Seq(S) /\ Len(y) = n /\ \A i \in 1..n : y[i] = body[k + i]
      BY <2>4, <2>5 DEF PieceOf
  <2>8. v \in Seq(S) /\ Len(v) = m - n /\ \A i \in 1..(m - n) : v[i] = rem[n + i]
      BY <2>3, <2>5 DEF PieceOf
  <2>9. w \in Seq(S) /\ Len(w) = m - n /\ \A i \in 1..(m - n) : w[i] = body[k + (n + i)]
      BY <2>4, <2>5 DEF PieceOf
  <2>10. x = y
    <3>1. \A i \in 1..Len(x) : x[i] = y[i]
        BY <1>4, <2>5, <2>6, <2>7
    <3> QED
        BY <2>6, <2>7, <3>1, SeqEqual
  <2>11. v = w
    <3>1. ASSUME NEW i \in 1..Len(v) PROVE v[i] = w[i]
      <4>1. i \in 1..(m - n) /\ n + i \in 1..m
          BY <2>5, <2>8
      <4>2. PICK j \in 1..m : j = n + i
          BY <4>1
      <4>3. v[i] = rem[j] /\ w[i] = body[k + j] /\ rem[j] = body[k + j]
          BY <1>4, <2>8, <2>9, <4>1, <4>2
      <4> QED
          BY <4>3
    <3> QED
        BY <2>8, <2>9, <3>1, SeqEqual
  <2> QED
      BY <2>1, <2>2, <2>10, <2>11
<1> QED
    BY <1>1, <1>4, <1>5 DEF Remains

----------------------------------------------------------------------------
(* A call whose stream is being read: the parser and the callback are      *)
(* where the symbols that came have brought them.                          *)
ReadAt(kind, s, o, k) ==
    /\ s.left = SubSeq(s.body, k + 1, Len(s.body)) /\ s.ps = ParserAt(kind, s.body, k)
    /\ o = OutAt(kind, s.body, k) /\ Settled(kind, s.body, k)
StreamReading(kind, s, o) ==
    /\ s.body \in Seq(ToSet(s.body))
    /\ WellFormed(kind, s.body) => \E k \in 0..Len(s.body) : ReadAt(kind, s, o, k)

StreamParts == {"body", "left", "ps", "op"}
FirstOnly(c) == c.cand = Candidates(c.q)
Requested(c, n) == n.count[Current(c)]
KindOf(c) == chain[Current(c)].kind

(* The first provider gave the callback what its stream means.             *)
Relayed(c, n, o) ==
    (c.mode = "stream" /\ FirstOnly(c) /\ Requested(c, n) = 1 /\ c.s.body # <<>> /\ WellFormed(KindOf(c), c.s.body))
        => o = Meaning(KindOf(c), c.s.body)

(* Nothing was told before the first request.                              *)
NothingYet(c, n, o) == (FirstOnly(c) /\ Requested(c, n) = 0) => o = <<>> /\ c.s.body = <<>>

StreamShape(c) == StreamParts \subseteq DOMAIN c.s /\ c.cand \subseteq Candidates(c.q)

StreamOn(c, n, o) ==
    /\ StreamShape(c) /\ NothingYet(c, n, o)
    /\ c.phase = "post" /\ c.mode = "stream" => KindOf(c) = "compatible"
    /\ c.phase \in Answering => Requested(c, n) # 0 /\ "large" \in DOMAIN c.s.op /\ (c.mode = "stream" => ~c.s.op.large)
    /\ (c.phase \in Answering /\ c.mode = "stream" /\ FirstOnly(c) /\ Requested(c, n) = 1) => StreamReading(KindOf(c), c.s, o)
    /\ c.phase = "ended" /\ c.last = "ok" => Relayed(c, n, o)

StreamSound == CallSound /\ (call.phase # "idle" => StreamOn(call, sent, out))

(* An attempt that ends: only an answer that was read must be relayed.     *)
LEMMA ConcludeStream ==
    ASSUME ChainBuilt, boot = "ok", NEW c, NEW n, CallHas(c, n), StreamShape(c), NEW o, NothingYet(c, n, o), NEW st,
           st = "ok" => Relayed(c, n, o)
    PROVE  StreamOn(Conclude(c, st), n, o)
<1> DEFINE ended == [c EXCEPT !.phase = "ended", !.last = st, !.times = @ + 1]
           again == [c EXCEPT !.phase = "call", !.outer = 0, !.inner = 0, !.last = st]
           tryAgain == [again EXCEPT !.tries = @ + 1]
           goOn == [again EXCEPT !.cand = @ \ {Current(c)}, !.tries = 0]
<1>1. \/ Conclude(c, st) = ended
      \/ Conclude(c, st) = tryAgain
      \/ Conclude(c, st) = goOn
    BY Zenon DEF Conclude
<1>2. CASE Conclude(c, st) = ended
  <2>1. /\ ended.cand = c.cand /\ ended.s = c.s /\ ended.mode = c.mode /\ ended.q = c.q
        /\ ended.phase = "ended" /\ ended.last = st
      BY DEF CallHas, CallParts
  <2> HIDE DEF ended
  <2>2. Current(ended) = Current(c)
      BY <2>1 DEF Current
  <2>3. StreamOn(ended, n, o)
      BY <2>1, <2>2 DEF StreamOn, StreamShape, NothingYet, Relayed, FirstOnly, Requested, KindOf, Answering
  <2> QED
      BY <1>2, <2>3
<1>3. CASE Conclude(c, st) = tryAgain
  <2>1. /\ tryAgain.cand = c.cand /\ tryAgain.s = c.s /\ tryAgain.mode = c.mode /\ tryAgain.q = c.q
        /\ tryAgain.phase = "call"
      BY DEF CallHas, CallParts
  <2> HIDE DEF tryAgain
  <2>2. Current(tryAgain) = Current(c)
      BY <2>1 DEF Current
  <2>3. StreamOn(tryAgain, n, o)
      BY <2>1, <2>2 DEF StreamOn, StreamShape, NothingYet, FirstOnly, Requested, Answering
  <2> QED
      BY <1>3, <2>3
<1>4. CASE Conclude(c, st) = goOn
  <2>1. /\ goOn.cand = c.cand \ {Current(c)} /\ goOn.s = c.s /\ goOn.mode = c.mode /\ goOn.q = c.q
        /\ goOn.phase = "call"
      BY DEF CallHas, CallParts
  <2> HIDE DEF goOn
  <2>2. Current(c) \in c.cand
      BY CurrentIn
  <2>3. ~FirstOnly(goOn) /\ goOn.cand \subseteq Candidates(goOn.q)
      BY <2>1, <2>2 DEF StreamShape, FirstOnly
  <2>4. StreamOn(goOn, n, o)
      BY <2>1, <2>3 DEF StreamOn, StreamShape, NothingYet, Answering
  <2> QED
      BY <1>4, <2>4
<1> QED
    BY <1>1, <1>2, <1>3, <1>4

(* A step of the call leaves the chain alone.                              *)
LEMMA StreamKept ==
    ASSUME UNCHANGED <<boot, setup, chain>>, StreamOn(call', sent', out')
    PROVE  StreamOn(call, sent, out)'
<1>1. ASSUME NEW q PROVE Candidates(q)' = Candidates(q)
    BY DEF Candidates, SelectProvider
<1>2. FirstOnly(call)' <=> FirstOnly(call')
    BY DEF FirstOnly, Candidates, SelectProvider
<1>3. StreamShape(call)' <=> StreamShape(call')
    BY DEF StreamShape, Candidates, SelectProvider
<1>4. Requested(call, sent)' = Requested(call', sent') /\ KindOf(call)' = KindOf(call')
    BY DEF Requested, KindOf, Current
<1>5. (Relayed(call, sent, out)' <=> Relayed(call', sent', out')) /\ (NothingYet(call, sent, out)' <=> NothingYet(call', sent', out'))
    BY <1>2, <1>4 DEF Relayed, NothingYet
<1> QED
    BY <1>2, <1>3, <1>4, <1>5 DEF StreamOn

(* A request is counted once.                                              *)
LEMMA SendAsks ==
    ASSUME ChainBuilt, boot = "ok", CallHas(call, sent), OneSent
    PROVE  Requested(call, sent') = Requested(call, sent) + 1 /\ Requested(call, sent) \in Nat
<1>1. Current(call) \in DOMAIN chain
    BY CurrentIn
<1>2. sent.count \in [DOMAIN chain -> Nat]
    BY DEF CallHas
<1>3. sent'.count = [sent.count EXCEPT ![Current(call)] = @ + 1]
    BY DEF OneSent, Send
<1> QED
    BY <1>1, <1>2, <1>3 DEF Requested

----------------------------------------------------------------------------
(* The steps of a stream.                                                  *)
LEMMA UnderWayNow ==
    ASSUME StreamSound, call.phase \in UnderWay
    PROVE  /\ ChainBuilt /\ boot = "ok" /\ CallUnderWay(call, sent) /\ CallHas(call, sent)
           /\ StreamOn(call, sent, out) /\ StreamShape(call) /\ NothingYet(call, sent, out)
    BY PhaseIs DEF StreamSound, CallSound, CallUnderWay, StreamOn, UnderWay

LEMMA CallProviderStream ==
    ASSUME StreamSound, CallProvider
    PROVE  StreamOn(call', sent', out')
<1>1. call.phase = "call" /\ UNCHANGED <<boot, setup, chain, sent, out>>
    BY DEF CallProvider
<1>2. /\ ChainBuilt /\ boot = "ok" /\ CallHas(call, sent)
      /\ StreamOn(call, sent, out) /\ StreamShape(call) /\ NothingYet(call, sent, out)
    BY <1>1, UnderWayNow DEF UnderWay
<1>3. \/ \E st : st # "ok" /\ call' = Conclude(call, st)
      \/ \E p \in {"process", "transfer", "stream", "post"} :
            /\ call' = [call EXCEPT !.phase = p]
            /\ p = "post" => ~Streamed \/ Provider.kind = "compatible"
  <2> DEFINE url == BuildUrl(Provider, call.q, Streamed)
             body == BuildRequest(Provider, call.q, Streamed)
             head == Headers(Provider, Env, call.direct)
             st == CASE call.q.cancel /\ ~call.direct -> "cancelled"
                     [] Streamed /\ Provider.kind = "bedrock" -> "unsupported"
                     [] OTHER -> IF body.st # "ok" THEN body.st
                                 ELSE IF Provider.kind \in ProcessKinds THEN "ok"
                                 ELSE IF url.st # "ok" THEN url.st
                                 ELSE IF head.st # "ok" \/ ~call.direct THEN head.st
                                 ELSE RefusedBefore([url |-> url.val.scheme, header |-> head.val, cancel |-> FALSE])
             next == CASE Provider.kind \in ProcessKinds -> "process"
                       [] call.direct -> "transfer"
                       [] OTHER -> IF Streamed /\ Provider.kind # "compatible" THEN "stream" ELSE "post"
  <2>1. call' = IF st = "ok" THEN [call EXCEPT !.phase = next] ELSE Conclude(call, st)
      BY DEF CallProvider
  <2>2. /\ next \in {"process", "transfer", "stream", "post"}
        /\ next = "post" => ~Streamed \/ Provider.kind = "compatible"
      OBVIOUS
  <2> HIDE DEF st, next
  <2> QED
      BY <2>1, <2>2
<1>4. CASE \E st : st # "ok" /\ call' = Conclude(call, st)
    BY <1>1, <1>2, <1>4, ConcludeStream
<1>5. CASE \E p \in {"process", "transfer", "stream", "post"} :
              /\ call' = [call EXCEPT !.phase = p]
              /\ p = "post" => ~Streamed \/ Provider.kind = "compatible"
  <2>1. PICK p \in {"process", "transfer", "stream", "post"} :
              /\ call' = [call EXCEPT !.phase = p]
              /\ p = "post" => ~Streamed \/ Provider.kind = "compatible"
      BY <1>5
  <2>2. /\ call'.phase = p /\ call'.cand = call.cand /\ call'.s = call.s /\ call'.mode = call.mode /\ call'.q = call.q
      BY <1>2, <2>1 DEF CallHas, CallParts
  <2>3. Current(call') = Current(call)
      BY <2>2 DEF Current
  <2>4. StreamShape(call') /\ NothingYet(call', sent', out')
      BY <1>1, <1>2, <2>2, <2>3 DEF StreamShape, NothingYet, FirstOnly, Requested
  <2>5. p = "post" /\ call'.mode = "stream" => KindOf(call') = "compatible"
      BY <2>1, <2>2, <2>3 DEF KindOf, Provider, Streamed
  <2> QED
      BY <2>2, <2>4, <2>5 DEF StreamOn, Answering
<1> QED
    BY <1>3, <1>4, <1>5

LEMMA ProcessStream ==
    ASSUME StreamSound, NEW r, Process(r)
    PROVE  StreamOn(call', sent', out')
<1>1. call.phase = "process" /\ OneSent /\ \E st : call' = Conclude(call, st)
    BY DEF Process, OneSent
<1>2. /\ ChainBuilt /\ boot = "ok" /\ CallUnderWay(call, sent) /\ CallHas(call, sent)
      /\ StreamShape(call) /\ NothingYet(call, sent, out)
    BY <1>1, UnderWayNow DEF UnderWay
<1>3. Requested(call, sent') = Requested(call, sent) + 1 /\ Requested(call, sent) \in Nat
    BY <1>1, <1>2, SendAsks
<1>4. CallHas(call, sent')
  <2>1. ~call.direct
      BY <1>1, <1>2 DEF CallUnderWay, AttemptOn
  <2> QED
      BY <1>1, <1>2, <2>1, SendSound DEF AttemptOver, Answering
<1>5. NothingYet(call, sent', out')
    BY <1>3 DEF NothingYet
<1>6. Relayed(call, sent', out')
  <2>1. Requested(call, sent') = 1 => Requested(call, sent) = 0
      BY <1>3
  <2> QED
      BY <1>2, <2>1 DEF NothingYet, Relayed
<1> QED
    BY <1>1, <1>2, <1>4, <1>5, <1>6, ConcludeStream

LEMMA BodySeq ==
    ASSUME NEW b, b \in Answers \/ b = NoSocket
    PROVE  b.body \in Seq(ToSet(b.body))
<1>1. CASE b \in Answers
    BY <1>1, StreamsAssumption
<1>2. CASE b = NoSocket
    BY <1>2 DEF NoSocket
<1> QED
    BY <1>1, <1>2

(* A stream before its first chunk.                                        *)
LEMMA ReadsFromStart ==
    ASSUME NEW kind, NEW s, s.body \in Seq(ToSet(s.body)), s.left = s.body, s.ps = NewParser(kind), NEW o, o = <<>>
    PROVE  StreamReading(kind, s, o)
<1>1. PICK S, body : body = s.body /\ S = ToSet(body)
    OBVIOUS
<1>2. body \in Seq(S)
    BY <1>1
<1>3. Settled(kind, body, 0) /\ ParserAt(kind, body, 0) = NewParser(kind) /\ OutAt(kind, body, 0) = <<>>
    BY <1>2, StreamBegins
<1>4. SubSeq(body, 0 + 1, Len(body)) = body /\ 0 \in 0..Len(body)
    BY <1>2, WholeSeq, LenProperties
<1>5. ReadAt(kind, s, o, 0)
    BY <1>1, <1>3, <1>4 DEF ReadAt
<1> QED
    BY <1>1, <1>4, <1>5 DEF StreamReading

LEMMA RespondStream ==
    ASSUME StreamSound, NEW b \in Answers, Respond(b)
    PROVE  StreamOn(call', sent', out')
<1>1. call.phase \in {"stream", "transfer"} /\ OneSent /\ UNCHANGED <<boot, setup, chain, out>>
    BY DEF Respond, OneSent
<1>2. /\ ChainBuilt /\ boot = "ok" /\ CallHas(call, sent) /\ StreamShape(call) /\ NothingYet(call, sent, out)
    BY <1>1, UnderWayNow DEF UnderWay
<1>3. Requested(call, sent') = Requested(call, sent) + 1 /\ Requested(call, sent) \in Nat
    BY <1>1, <1>2, SendAsks
<1>4. PICK a : /\ a \in Answers \/ a = NoSocket
               /\ call' = [call EXCEPT !.phase = IF call.phase = "stream" THEN "chunks" ELSE "receiving",
                                   !.s = [body |-> a.body, left |-> a.body, ps |-> NewParser(Provider.kind), doc |-> a.doc,
                                          code |-> a.code, curl |-> a.curl, op |-> [NewOp EXCEPT !.large = a.large /\ ~Streamed]]]
    BY Zenon DEF Respond
<1>5. PICK ps, op, s : /\ ps = NewParser(Provider.kind) /\ op = [NewOp EXCEPT !.large = a.large /\ ~Streamed]
                       /\ s = [body |-> a.body, left |-> a.body, ps |-> ps, doc |-> a.doc,
                               code |-> a.code, curl |-> a.curl, op |-> op]
    OBVIOUS
<1>6. call' = [call EXCEPT !.phase = IF call.phase = "stream" THEN "chunks" ELSE "receiving", !.s = s]
    BY <1>4, <1>5, Zenon
<1>7. "large" \in DOMAIN op /\ (Streamed => ~op.large)
  <2>1. "large" \in DOMAIN op /\ op.large = (a.large /\ ~Streamed)
      BY <1>5 DEF NewOp
  <2> QED
      BY <2>1, Zenon
<1>8. s.body = a.body /\ s.left = a.body /\ s.ps = ps /\ s.op = op /\ StreamParts \subseteq DOMAIN s
    BY <1>5 DEF StreamParts
<1>9. /\ call'.phase = (IF call.phase = "stream" THEN "chunks" ELSE "receiving") /\ call'.cand = call.cand
      /\ call'.s = s /\ call'.mode = call.mode /\ call'.q = call.q
    BY <1>2, <1>6 DEF CallHas, CallParts
<1> HIDE <1>6
<1>10. Current(call') = Current(call)
    BY <1>9 DEF Current
<1>11. Requested(call', sent') = Requested(call, sent')
    BY <1>10 DEF Requested
<1>12. StreamShape(call') /\ NothingYet(call', sent', out')
    BY <1>2, <1>3, <1>8, <1>9, <1>11 DEF StreamShape, NothingYet
<1>13. ASSUME FirstOnly(call'), Requested(call', sent') = 1 PROVE StreamReading(KindOf(call'), call'.s, out')
  <2>1. FirstOnly(call) /\ Requested(call, sent) = 0
      BY <1>3, <1>9, <1>11, <1>13 DEF FirstOnly
  <2>2. out' = <<>>
      BY <1>1, <1>2, <2>1 DEF NothingYet
  <2>3. s.body \in Seq(ToSet(s.body))
      BY <1>4, <1>8, BodySeq
  <2>4. s.ps = NewParser(KindOf(call'))
      BY <1>5, <1>8, <1>10 DEF KindOf, Provider
  <2>5. StreamReading(KindOf(call'), s, out')
      BY <1>8, <2>2, <2>3, <2>4, ReadsFromStart
  <2> QED
      BY <1>9, <2>5
<1>14. Requested(call', sent') # 0 /\ "large" \in DOMAIN call'.s.op /\ (call'.mode = "stream" => ~call'.s.op.large)
    BY <1>3, <1>7, <1>8, <1>9, <1>11 DEF Streamed
<1>15. call'.phase \in Answering /\ call'.phase # "post" /\ call'.phase # "ended"
    BY <1>9 DEF Answering
<1> QED
    BY <1>12, <1>13, <1>14, <1>15 DEF StreamOn

(* The answer of provider_curl_json_post, read at once.                    *)
LEMMA PostStream ==
    ASSUME StreamSound, NEW a \in Answers, Post(a)
    PROVE  StreamOn(call', sent', out')
<1>1. call.phase = "post" /\ OneSent
    BY DEF Post, OneSent
<1>2. /\ ChainBuilt /\ boot = "ok" /\ CallUnderWay(call, sent) /\ CallHas(call, sent)
      /\ StreamOn(call, sent, out) /\ StreamShape(call) /\ NothingYet(call, sent, out)
    BY <1>1, UnderWayNow DEF UnderWay
<1>3. Requested(call, sent') = Requested(call, sent) + 1 /\ Requested(call, sent) \in Nat
    BY <1>1, <1>2, SendAsks
<1>4. AttemptOver(call, sent')
  <2>1. ~call.direct
      BY <1>1, <1>2 DEF CallUnderWay, AttemptOn
  <2> QED
      BY <1>1, <1>2, <2>1, SendSound DEF Answering
<1>5. PICK whole, rest : /\ whole = Push(NewParser("compatible"), a.body, MaxPartial, Docs)
                         /\ rest = FinishStream(whole.ps, Docs)
    OBVIOUS
<1>6. \/ call' = [call EXCEPT !.inner = @ + 1] /\ out' = out
      \/ call' = [call EXCEPT !.inner = 0, !.outer = @ + 1] /\ out' = out
      \/ \E final : /\ call' = Conclude([call EXCEPT !.s.body = a.body], final.st)
                    /\ out' = out \o final.out
                    /\ Streamed /\ final.st = "ok" =>
                          /\ whole.st = "ok" /\ rest.st = "ok" /\ final.out = whole.out \o rest.out
  <2> DEFINE p == Provider
             inner == JsonPostAgain(a, p)
             st == IF JsonPostStatus(a) = "ok" /\ ~Success(a.code) THEN "http" ELSE JsonPostStatus(a)
             outer == /\ AttemptLeft(call.outer, p.retries)
                      /\ IF p.kind = "compatible" THEN CompatibleRetries(a) ELSE HttpRetries(a)
             final == CASE st # "ok" -> [st |-> st, out |-> <<>>]
                        [] st = "ok" /\ ~Streamed -> [st |-> ParseResponse(p.kind, a.doc).st, out |-> <<>>]
                        [] OTHER -> IF whole.st # "ok" THEN [st |-> whole.st, out |-> whole.out]
                                    ELSE [st |-> rest.st, out |-> whole.out \o rest.out]
  <2>1. /\ call' = IF inner THEN [call EXCEPT !.inner = @ + 1]
                   ELSE IF outer THEN [call EXCEPT !.inner = 0, !.outer = @ + 1]
                   ELSE Conclude([call EXCEPT !.s.body = a.body], final.st)
        /\ out' = IF inner \/ outer THEN out ELSE out \o final.out
      BY <1>5, Zenon DEF Post
  <2>2. Streamed /\ final.st = "ok" => whole.st = "ok" /\ rest.st = "ok" /\ final.out = whole.out \o rest.out
    <3> HIDE DEF st
    <3> QED
        OBVIOUS
  <2> HIDE DEF final, inner, outer
  <2> QED
      BY <2>1, <2>2, Zenon
<1>7. ASSUME call'.phase = call.phase, call'.cand = call.cand, call'.s = call.s, call'.mode = call.mode, call'.q = call.q
      PROVE  StreamOn(call', sent', out')
  <2>1. Current(call') = Current(call)
      BY <1>7 DEF Current
  <2>2. Requested(call', sent') # 0 /\ KindOf(call') = KindOf(call)
      BY <1>3, <2>1 DEF Requested, KindOf
  <2> QED
      BY <1>1, <1>2, <1>7, <2>2 DEF StreamOn, StreamShape, NothingYet, Answering
<1>8. CASE call' = [call EXCEPT !.inner = @ + 1]
  <2>1. call'.phase = call.phase /\ call'.cand = call.cand /\ call'.s = call.s /\ call'.mode = call.mode /\ call'.q = call.q
      BY <1>2, <1>8 DEF CallHas, CallParts
  <2> QED
      BY <1>7, <2>1
<1>9. CASE call' = [call EXCEPT !.inner = 0, !.outer = @ + 1]
  <2>1. call'.phase = call.phase /\ call'.cand = call.cand /\ call'.s = call.s /\ call'.mode = call.mode /\ call'.q = call.q
      BY <1>2, <1>9 DEF CallHas, CallParts
  <2> QED
      BY <1>7, <2>1
<1>10. CASE \E final : /\ call' = Conclude([call EXCEPT !.s.body = a.body], final.st)
                       /\ out' = out \o final.out
                       /\ Streamed /\ final.st = "ok" =>
                             /\ whole.st = "ok" /\ rest.st = "ok" /\ final.out = whole.out \o rest.out
  <2>1. PICK final : /\ call' = Conclude([call EXCEPT !.s.body = a.body], final.st)
                     /\ out' = out \o final.out
                     /\ Streamed /\ final.st = "ok" =>
                           /\ whole.st = "ok" /\ rest.st = "ok" /\ final.out = whole.out \o rest.out
      BY <1>10
  <2>2. PICK x, c : x = [call.s EXCEPT !.body = a.body] /\ c = [call EXCEPT !.s = x]
      OBVIOUS
  <2>3. call' = Conclude(c, final.st)
      BY <2>1, <2>2, Zenon
  <2>4. /\ c.cand = call.cand /\ c.s = x /\ c.mode = call.mode /\ c.q = call.q
        /\ x.body = a.body /\ StreamParts \subseteq DOMAIN x
      BY <1>2, <2>2 DEF CallHas, CallParts, StreamShape, StreamParts
  <2>5. CallHas(c, sent')
    <3>1. AttemptOver(c, sent')
        BY <1>4, <2>2, OverButStream
    <3> QED
        BY <3>1 DEF AttemptOver
  <2> HIDE <2>1, <2>2
  <2>6. Current(c) = Current(call)
      BY <2>4 DEF Current
  <2>7. Requested(c, sent') = Requested(call, sent') /\ KindOf(c) = KindOf(call) /\ (FirstOnly(c) <=> FirstOnly(call))
      BY <2>4, <2>6 DEF Requested, KindOf, FirstOnly
  <2>8. StreamShape(c) /\ NothingYet(c, sent', out')
      BY <1>2, <1>3, <2>4, <2>7 DEF StreamShape, NothingYet
  <2>9. ASSUME final.st = "ok" PROVE Relayed(c, sent', out')
    <3> SUFFICES ASSUME c.mode = "stream", FirstOnly(c), Requested(c, sent') = 1, c.s.body # <<>>,
                        WellFormed(KindOf(c), c.s.body)
                 PROVE  out' = Meaning(KindOf(c), c.s.body)
        BY DEF Relayed
    <3>1. PICK body, S : body = a.body /\ S = ToSet(body)
        OBVIOUS
    <3>2. body \in Seq(S) /\ c.s.body = body /\ body # <<>>
        BY <2>4, <3>1, StreamsAssumption
    <3>3. KindOf(c) = "compatible"
        BY <1>1, <1>2, <2>4, <2>7 DEF StreamOn
    <3>4. Requested(call, sent) = 0 /\ FirstOnly(call)
        BY <1>3, <2>7
    <3>5. out = <<>>
        BY <1>2, <3>4 DEF NothingYet
    <3>6. whole.st = "ok" /\ rest.st = "ok" /\ final.out = whole.out \o rest.out
        BY <2>1, <2>4, <2>9 DEF Streamed
    <3>7. WellFormed("compatible", body) /\ whole = Push(NewParser("compatible"), body, MaxPartial, Docs)
        BY <1>5, <3>1, <3>2, <3>3
    <3>8. /\ whole.out \o rest.out = Meaning("compatible", body)
          /\ whole.out \o rest.out \in Seq(EventsIn("compatible", body))
        BY <1>5, <3>2, <3>6, <3>7, WholeReads
    <3>9. PICK m : m = final.out
        OBVIOUS
    <3>10. out' = <<>> \o m
        BY <2>1, <3>5, <3>9
    <3>11. m \in Seq(EventsIn("compatible", body))
        BY <3>6, <3>8, <3>9
    <3>12. <<>> \o m = m
        BY <3>11, ConcatEmptySeq
    <3> QED
        BY <3>2, <3>3, <3>6, <3>8, <3>9, <3>10, <3>12
  <2>10. StreamOn(Conclude(c, final.st), sent', out')
      BY <1>2, <2>5, <2>8, <2>9, ConcludeStream
  <2> QED
      BY <2>3, <2>10
<1> QED
    BY <1>6, <1>8, <1>9, <1>10

(* What goes on after a chunk, and what does not.                          *)
LEMMA PairFields ==
    ASSUME NEW x, NEW y, NEW w, w = <<x, y>>
    PROVE  w[1] = x /\ w[2] = y
    OBVIOUS

GoesOnWith(op, n, st, wrote) == wrote[2] => st = "ok" /\ wrote[1] = [op EXCEPT !.size = @ + n]

LEMMA WriteGoesOn ==
    ASSUME NEW op, NEW n, NEW st, NEW wrote, wrote = WriteChunk(op, n, FALSE, MaxBytes, st)
    PROVE  GoesOnWith(op, n, st, wrote)
<1>1. \/ \E x : wrote = <<x, FALSE>>
      \/ st = "ok" /\ wrote = <<[op EXCEPT !.size = @ + n], TRUE>>
    BY Zenon DEF WriteChunk
<1>2. ASSUME NEW x, wrote = <<x, FALSE>> PROVE ~wrote[2]
    BY <1>2, PairFields, Zenon
<1>3. ASSUME wrote = <<[op EXCEPT !.size = @ + n], TRUE>> PROVE wrote[1] = [op EXCEPT !.size = @ + n]
  <2>1. PICK x, y : x = [op EXCEPT !.size = @ + n] /\ y = TRUE
      OBVIOUS
  <2>2. wrote = <<x, y>>
      BY <1>3, <2>1, Zenon
  <2>3. wrote[1] = x
      BY <2>2, PairFields
  <2> QED
      BY <2>1, <2>3, Zenon
<1> QED
    BY <1>1, <1>2, <1>3, Zenon DEF GoesOnWith

LEMMA StoppedIsNoAnswer ==
    ASSUME NEW op, NEW code
    PROVE  CompletionStatus(op, FALSE, "fatal", code) # "ok"
    BY DEF CompletionStatus

LEMMA ReadsOn ==
    ASSUME NEW kind, NEW s, NEW o, StreamReading(kind, s, o), NEW n \in 1..Len(s.left), NEW got,
           got = Push(s.ps, SubSeq(s.left, 1, n), MaxPartial, Docs), got.st = "ok", NEW x, x.body = s.body,
           x.left = SubSeq(s.left, n + 1, Len(s.left)), x.ps = got.ps
    PROVE  StreamReading(kind, x, o \o got.out)
<1>1. PICK body, S : body = s.body /\ S = ToSet(body)
    OBVIOUS
<1>2. body \in Seq(S)
    BY <1>1 DEF StreamReading
<1>3. ASSUME WellFormed(kind, body) PROVE \E l \in 0..Len(body) : ReadAt(kind, x, o \o got.out, l)
  <2>1. PICK k \in 0..Len(body) : ReadAt(kind, s, o, k)
      BY <1>1, <1>3 DEF StreamReading
  <2>2. PICK rem, chunk, ps : rem = s.left /\ chunk = SubSeq(rem, 1, n) /\ ps = s.ps
      OBVIOUS
  <2>3. /\ rem = SubSeq(body, k + 1, Len(body)) /\ ps = ParserAt(kind, body, k)
        /\ o = OutAt(kind, body, k) /\ Settled(kind, body, k)
      BY <1>1, <2>1, <2>2 DEF ReadAt
  <2>4. n \in 1..Len(rem)
      BY <2>2
  <2>50. Remains(body, k, rem, n)
      BY <1>2, <2>3, <2>4, LeftOver
  <2>5. /\ k + n <= Len(body) /\ SubSeq(rem, 1, n) = SubSeq(body, k + 1, k + n)
        /\ SubSeq(rem, n + 1, Len(rem)) = SubSeq(body, (k + n) + 1, Len(body))
      BY <2>50 DEF Remains
  <2>6. Len(body) \in Nat /\ k \in Nat /\ n \in Nat /\ n # 0 /\ k + n \in 0..Len(body)
      BY <1>2, <2>4, <2>5, LenProperties
  <2>7. got = Push(ps, chunk, MaxPartial, Docs) /\ chunk = SubSeq(body, k + 1, k + n)
      BY <2>2, <2>5
  <2>8. Pushed(kind, body, k, k + n, got)
      BY <1>2, <1>3, <2>3, <2>5, <2>6, <2>7, PushReads
  <2>9. ReadAt(kind, x, o \o got.out, k + n)
      BY <1>1, <2>2, <2>3, <2>5, <2>8 DEF Pushed, ReadAt
  <2> QED
      BY <2>6, <2>9
<1> QED
    BY <1>1, <1>2, <1>3 DEF StreamReading

LEMMA ChunkStream ==
    ASSUME StreamSound, NEW n, Chunk(n)
    PROVE  StreamOn(call', sent', out')
<1>1. /\ call.phase \in Answering /\ UNCHANGED <<boot, setup, chain, sent>>
      /\ Streamed /\ n \in 1..Len(call.s.left)
    BY DEF Chunk, Answering
<1>2. /\ ChainBuilt /\ boot = "ok" /\ CallUnderWay(call, sent) /\ CallHas(call, sent)
      /\ StreamOn(call, sent, out) /\ StreamShape(call) /\ NothingYet(call, sent, out)
    BY <1>1, UnderWayNow DEF UnderWay, Answering
<1>3. call.mode = "stream" /\ "large" \in DOMAIN call.s.op /\ ~call.s.op.large /\ Requested(call, sent) # 0
    BY <1>1, <1>2 DEF StreamOn, Streamed
<1>4. PICK got : /\ got = Push(call.s.ps, SubSeq(call.s.left, 1, n), MaxPartial, Docs)
                 /\ LET wrote == WriteChunk(call.s.op, n, FALSE, MaxBytes, got.st)
                        op == IF call.phase = "chunks" THEN call.s.op ELSE wrote[1]
                        read == [call.s EXCEPT !.ps = IF op.large THEN @ ELSE got.ps, !.left = SubSeq(@, n + 1, Len(@)), !.op = op]
                        fed == [call EXCEPT !.s = read]
                    IN  IF call.phase = "chunks"
                        THEN /\ call' = IF got.st = "ok" THEN fed ELSE Conclude(fed, got.st)
                             /\ out' = out \o got.out
                        ELSE /\ call' = IF wrote[2] THEN fed ELSE Conclude(fed, CompletionStatus(op, FALSE, "fatal", call.s.code))
                             /\ out' = IF op.large THEN out ELSE out \o got.out
    BY Zenon DEF Chunk
<1>5. PICK wrote, op, x, c :
          /\ wrote = WriteChunk(call.s.op, n, FALSE, MaxBytes, got.st)
          /\ op = IF call.phase = "chunks" THEN call.s.op ELSE wrote[1]
          /\ x = [call.s EXCEPT !.ps = IF op.large THEN @ ELSE got.ps, !.left = SubSeq(@, n + 1, Len(@)), !.op = op]
          /\ c = [call EXCEPT !.s = x]
    OBVIOUS
<1>6. IF call.phase = "chunks"
      THEN /\ call' = IF got.st = "ok" THEN c ELSE Conclude(c, got.st)
           /\ out' = out \o got.out
      ELSE /\ call' = IF wrote[2] THEN c ELSE Conclude(c, CompletionStatus(op, FALSE, "fatal", call.s.code))
           /\ out' = IF op.large THEN out ELSE out \o got.out
    BY <1>4, <1>5, Zenon
<1>7. /\ x.body = call.s.body /\ x.left = SubSeq(call.s.left, n + 1, Len(call.s.left)) /\ x.op = op
      /\ x.ps = (IF op.large THEN call.s.ps ELSE got.ps) /\ StreamParts \subseteq DOMAIN x
    BY <1>2, <1>5 DEF StreamShape, StreamParts
<1>8. /\ c.cand = call.cand /\ c.s = x /\ c.mode = call.mode /\ c.q = call.q /\ c.phase = call.phase
    BY <1>2, <1>5 DEF CallHas, CallParts
<1>9. CallHas(c, sent')
    BY <1>1, <1>2, <1>5, SameButStream DEF CallUnderWay
<1>10. got = Push(call.s.ps, SubSeq(call.s.left, 1, n), MaxPartial, Docs)
    BY <1>4
<1>11. GoesOnWith(call.s.op, n, got.st, wrote)
    BY <1>5, WriteGoesOn, Zenon
<1>12. op = IF call.phase = "chunks" THEN call.s.op ELSE wrote[1]
    BY <1>5
<1> HIDE <1>4, <1>5
<1>13. Current(c) = Current(call)
    BY <1>8 DEF Current
<1>14. Requested(c, sent') = Requested(call, sent) /\ KindOf(c) = KindOf(call) /\ (FirstOnly(c) <=> FirstOnly(call))
    BY <1>1, <1>8, <1>13 DEF Requested, KindOf, FirstOnly
<1>15. StreamShape(c) /\ NothingYet(c, sent', out')
    BY <1>2, <1>3, <1>7, <1>8, <1>14 DEF StreamShape, NothingYet
<1>16. ASSUME NEW st, st # "ok", call' = Conclude(c, st) PROVE StreamOn(call', sent', out')
    BY <1>2, <1>9, <1>15, <1>16, ConcludeStream
<1>17. ASSUME call' = c, got.st = "ok", "large" \in DOMAIN op, ~op.large, out' = out \o got.out
       PROVE  StreamOn(call', sent', out')
  <2>1. ASSUME FirstOnly(c), Requested(c, sent') = 1 PROVE StreamReading(KindOf(c), c.s, out')
    <3>1. StreamReading(KindOf(call), call.s, out)
        BY <1>1, <1>2, <1>3, <1>14, <2>1 DEF StreamOn
    <3>2. x.ps = got.ps
        BY <1>7, <1>17
    <3>3. StreamReading(KindOf(call), x, out \o got.out)
        BY <1>1, <1>7, <1>10, <1>17, <3>1, <3>2, ReadsOn
    <3> QED
        BY <1>8, <1>14, <1>17, <3>3
  <2>2. c.phase \in Answering /\ c.phase # "post" /\ c.phase # "ended"
      BY <1>1, <1>8 DEF Answering
  <2>3. "large" \in DOMAIN c.s.op /\ ~c.s.op.large /\ Requested(c, sent') # 0
      BY <1>3, <1>7, <1>8, <1>14, <1>17
  <2>4. StreamOn(c, sent', out')
      BY <1>15, <2>1, <2>2, <2>3 DEF StreamOn
  <2> QED
      BY <1>17, <2>4
<1>18. CASE call.phase = "chunks"
  <2>1. op = call.s.op
      BY <1>12, <1>18
  <2> QED
      BY <1>3, <1>6, <1>16, <1>17, <1>18, <2>1
<1>19. CASE call.phase # "chunks"
  <2>1. CASE wrote[2]
    <3>1. op = [call.s.op EXCEPT !.size = @ + n] /\ got.st = "ok"
        BY <1>11, <1>12, <1>19, <2>1, Zenon DEF GoesOnWith
    <3>2. "large" \in DOMAIN op /\ ~op.large
        BY <1>3, <3>1
    <3> QED
        BY <1>6, <1>17, <1>19, <2>1, <3>1, <3>2
  <2>2. CASE ~wrote[2]
    <3>1. PICK st : st = CompletionStatus(op, FALSE, "fatal", call.s.code)
        OBVIOUS
    <3>2. st # "ok"
        BY <3>1, StoppedIsNoAnswer
    <3>3. call' = Conclude(c, st)
        BY <1>6, <1>19, <2>2, <3>1
    <3> QED
        BY <1>16, <3>2, <3>3
  <2> QED
      BY <2>1, <2>2
<1> QED
    BY <1>18, <1>19

(* The end of a stream that was read to its last symbol.                   *)
LEMMA ReadsToEnd ==
    ASSUME NEW kind, NEW s, NEW o, StreamReading(kind, s, o), s.left = <<>>, s.body # <<>>, WellFormed(kind, s.body),
           NEW end, end = FinishStream(s.ps, Docs), end.st = "ok"
    PROVE  o \o end.out = Meaning(kind, s.body)
<1>1. PICK body, S, ps : body = s.body /\ S = ToSet(body) /\ ps = s.ps
    OBVIOUS
<1>2. body \in Seq(S)
    BY <1>1 DEF StreamReading
<1>3. PICK k \in 0..Len(body) : ReadAt(kind, s, o, k)
    BY <1>1 DEF StreamReading
<1>4. PICK rem : rem = SubSeq(body, k + 1, Len(body))
    OBVIOUS
<1>5. Len(rem) = Len(body) - k
    BY <1>2, <1>4, LeftOver
<1>6. rem = <<>> /\ ps = ParserAt(kind, body, k) /\ o = OutAt(kind, body, k) /\ Settled(kind, body, k)
    BY <1>1, <1>3, <1>4 DEF ReadAt
<1>7. Len(rem) = 0 /\ Len(body) \in Nat
    BY <1>2, <1>6, LenProperties
<1>8. k = Len(body)
    BY <1>5, <1>7
<1>9. /\ ps = ParserAt(kind, body, Len(body)) /\ Settled(kind, body, Len(body)) /\ o = OutAt(kind, body, Len(body))
    BY <1>6, <1>8
<1>10. WellFormed(kind, body) /\ body # <<>> /\ end = FinishStream(ps, Docs)
    BY <1>1
<1>11. OutAt(kind, body, Len(body)) \o end.out = Meaning(kind, body)
    BY <1>2, <1>9, <1>10, FinishReads
<1> QED
    BY <1>1, <1>9, <1>11

LEMMA EndOfTransferStream ==
    ASSUME StreamSound, EndOfTransfer
    PROVE  StreamOn(call', sent', out')
<1>1. /\ call.phase \in Answering /\ UNCHANGED <<boot, setup, chain, sent>>
      /\ ~Streamed \/ call.s.left = <<>>
    BY DEF EndOfTransfer, Answering
<1>2. /\ ChainBuilt /\ boot = "ok" /\ CallHas(call, sent)
      /\ StreamOn(call, sent, out) /\ StreamShape(call) /\ NothingYet(call, sent, out)
    BY <1>1, UnderWayNow DEF UnderWay, Answering
<1>3. PICK st, end : /\ call' = Conclude(call, IF st = "ok" THEN end.st ELSE st)
                     /\ out' = IF st = "ok" THEN out \o end.out ELSE out
                     /\ Streamed => end = FinishStream(call.s.ps, Docs)
  <2> DEFINE s == call.s
             kind == Provider.kind
             st == CASE call.phase = "chunks" -> StreamStatus(s)
                     [] call.phase = "receiving" /\ kind = "compatible" -> CompatibleStatus(s)
                     [] OTHER -> HttpStatus(s)
             end == IF Streamed THEN FinishStream(s.ps, Docs)
                    ELSE [st |-> ParseResponse(kind, s.doc).st, out |-> <<>>]
  <2>1. /\ call' = Conclude(call, IF st = "ok" THEN end.st ELSE st)
        /\ out' = IF st = "ok" THEN out \o end.out ELSE out
      BY Zenon DEF EndOfTransfer
  <2>2. Streamed => end = FinishStream(call.s.ps, Docs)
      BY Zenon
  <2> HIDE DEF st, end
  <2> QED
      BY <2>1, <2>2, Zenon
<1>4. PICK last : last = IF st = "ok" THEN end.st ELSE st
    OBVIOUS
<1>5. Requested(call, sent) # 0
    BY <1>1, <1>2 DEF StreamOn
<1>6. NothingYet(call, sent', out')
    BY <1>1, <1>5 DEF NothingYet
<1>7. ASSUME last = "ok" PROVE Relayed(call, sent', out')
  <2> SUFFICES ASSUME call.mode = "stream", FirstOnly(call), Requested(call, sent) = 1, call.s.body # <<>>,
                      WellFormed(KindOf(call), call.s.body)
               PROVE  out' = Meaning(KindOf(call), call.s.body)
      BY <1>1 DEF Relayed
  <2>1. st = "ok" /\ end.st = "ok"
      BY <1>4, <1>7
  <2>2. call.s.left = <<>> /\ end = FinishStream(call.s.ps, Docs)
      BY <1>1, <1>3 DEF Streamed
  <2>3. StreamReading(KindOf(call), call.s, out)
      BY <1>1, <1>2 DEF StreamOn
  <2>4. out \o end.out = Meaning(KindOf(call), call.s.body)
      BY <2>1, <2>2, <2>3, ReadsToEnd
  <2> QED
      BY <1>3, <2>1, <2>4
<1>8. CallHas(call, sent') /\ call' = Conclude(call, last)
    BY <1>1, <1>2, <1>3, <1>4
<1> QED
    BY <1>2, <1>6, <1>7, <1>8, ConcludeStream

LEMMA StartStream ==
    ASSUME StreamSound, NEW q, NEW mode, NEW async \in BOOLEAN, Start(q, mode, async)
    PROVE  StreamOn(call', sent', out')
<1>1. boot = "ok" /\ out' = <<>> /\ ChainBuilt
    BY DEF Start, StreamSound, CallSound
<1>2. /\ call'.phase = "call" /\ call'.cand = Candidates(q) /\ call'.q = q /\ call'.s = NoStream
    BY DEF Start, Idle
<1>3. NoStream.body = <<>> /\ StreamParts \subseteq DOMAIN NoStream
    BY DEF NoStream, StreamParts
<1> QED
    BY <1>1, <1>2, <1>3 DEF StreamOn, StreamShape, NothingYet, Answering

LEMMA StreamStep ==
    ASSUME StreamSound, [Next]_vars
    PROVE  StreamSound'
<1>1. CallSound'
    BY CallStep DEF StreamSound
<1>2. CASE UNCHANGED vars
  <2>1. UNCHANGED <<boot, setup, chain, call, sent, out>>
      BY <1>2 DEF vars
  <2>2. ASSUME call'.phase # "idle" PROVE StreamOn(call, sent, out)'
    <3>1. StreamOn(call', sent', out')
        BY <2>1, <2>2 DEF StreamSound
    <3> QED
        BY <2>1, <3>1, StreamKept
  <2> QED
      BY <1>1, <2>2 DEF StreamSound
<1>3. CASE Boot
  <2>1. boot = "none" /\ UNCHANGED call
      BY <1>3 DEF Boot
  <2>2. NoCall(call, sent)
      BY <2>1 DEF StreamSound, CallSound
  <2>3. call'.phase = "idle"
      BY <2>1, <2>2 DEF NoCall, Idle
  <2> QED
      BY <1>1, <2>3 DEF StreamSound
<1>4. CASE Return
  <2>1. call'.phase = "idle"
      BY <1>4 DEF Return, Idle
  <2> QED
      BY <1>1, <2>1 DEF StreamSound
<1>5. ASSUME UNCHANGED <<boot, setup, chain>>, StreamOn(call', sent', out') PROVE StreamSound'
  <2>1. StreamOn(call, sent, out)'
      BY <1>5, StreamKept
  <2> QED
      BY <1>1, <2>1 DEF StreamSound
<1>6. CASE \E q \in Prompts, mode \in {"generate", "stream"}, async \in BOOLEAN : Start(q, mode, async)
  <2>1. StreamOn(call', sent', out') /\ UNCHANGED <<boot, setup, chain>>
      BY <1>6, StartStream DEF Start
  <2> QED
      BY <1>5, <2>1
<1>7. CASE CallProvider
  <2>1. StreamOn(call', sent', out') /\ UNCHANGED <<boot, setup, chain>>
      BY <1>7, CallProviderStream DEF CallProvider
  <2> QED
      BY <1>5, <2>1
<1>8. CASE \E a \in Answers : Post(a)
  <2>1. PICK a \in Answers : Post(a)
      BY <1>8
  <2>2. UNCHANGED <<boot, setup, chain>>
      BY <2>1 DEF Post
  <2> QED
      BY <1>5, <2>1, <2>2, PostStream
<1>9. CASE \E r \in Results : Process(r)
  <2>1. StreamOn(call', sent', out') /\ UNCHANGED <<boot, setup, chain>>
      BY <1>9, ProcessStream DEF Process
  <2> QED
      BY <1>5, <2>1
<1>10. CASE \E a \in Answers : Respond(a)
  <2>1. StreamOn(call', sent', out') /\ UNCHANGED <<boot, setup, chain>>
      BY <1>10, RespondStream DEF Respond
  <2> QED
      BY <1>5, <2>1
<1>11. CASE \E n \in 1..MaxPartial : Chunk(n)
  <2>1. PICK n : Chunk(n)
      BY <1>11
  <2>2. UNCHANGED <<boot, setup, chain>>
      BY <2>1 DEF Chunk
  <2> QED
      BY <1>5, <2>1, <2>2, ChunkStream
<1>12. CASE EndOfTransfer
  <2>1. StreamOn(call', sent', out') /\ UNCHANGED <<boot, setup, chain>>
      BY <1>12, EndOfTransferStream DEF EndOfTransfer
  <2> QED
      BY <1>5, <2>1
<1> QED
    BY <1>2, <1>3, <1>4, <1>6, <1>7, <1>8, <1>9, <1>10, <1>11, <1>12 DEF Next, Step

LEMMA StreamSoundSays == StreamSound => StreamFaithful
<1> SUFFICES ASSUME StreamSound, call.phase = "ended", Streamed, sent.count[Current(call)] = 1, call.last = "ok",
                    call.cand = Candidates(call.q), call.s.body # <<>>, WellFormed(Provider.kind, call.s.body)
             PROVE  out = Meaning(Provider.kind, call.s.body)
    BY DEF StreamFaithful
<1>1. KindOf(call) = Provider.kind
    BY DEF KindOf, Provider
<1>2. Relayed(call, sent, out)
    BY DEF StreamSound, StreamOn
<1>3. call.mode = "stream" /\ FirstOnly(call) /\ Requested(call, sent) = 1
    BY DEF Streamed, FirstOnly, Requested
<1> QED
    BY <1>1, <1>2, <1>3 DEF Relayed

(* A well-formed stream that the first provider's one request brought, and *)
(* that was read without an error, gives the callback its events in order, *)
(* each once, and one DONE, however the network cut it and wherever the    *)
(* answer was read: in one piece (compatible_stream) or chunk by chunk     *)
(* (provider_sse_stream_push, ollama_stream_push).                         *)
THEOREM StreamFaithfulHolds == Spec => []StreamFaithful
<1>1. Init => StreamSound
  <2> SUFFICES ASSUME Init PROVE StreamSound
      OBVIOUS
  <2>1. boot = "none" /\ setup \in Setups /\ call = Idle /\ sent = NotSent
      BY DEF Init
  <2>2. /\ {"count", "after"} \subseteq DOMAIN NotSent /\ NotSent.after = {} /\ DOMAIN NotSent.count = {}
      BY DEF NotSent
  <2>3. CallSound
      BY <2>1, <2>2 DEF CallSound, ChainBuilt, NoCall
  <2>4. call.phase = "idle"
      BY <2>1 DEF Idle
  <2> QED
      BY <2>3, <2>4 DEF StreamSound
<1>2. StreamSound /\ [Next]_vars => StreamSound'
    BY StreamStep
<1> QED
    BY <1>1, <1>2, StreamSoundSays, PTL DEF Spec
=============================================================================
