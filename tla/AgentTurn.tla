------------------------------ MODULE AgentTurn ------------------------------
(***************************************************************************)
(* One agent turn of src/runtime/agent.c: memory and prompt, the           *)
(* provider/tool loop with its per-loop caches, approvals, cancellation    *)
(* and deadline checks, the single context-overflow retry, and what is     *)
(* written and reported at the end.  The code has the turn twice:          *)
(*   "sync"   sc_agent_process_message, run_provider_loop,                 *)
(*            execute_tool_calls: blocking calls on one stack;             *)
(*   "async"  sc_agent_process_message_async and the agent_async_*         *)
(*            callbacks: one heap state, freed by agent_async_complete.    *)
(* A step ends where other code runs: the provider, a tool, the user who   *)
(* is asked for approval.  Meanwhile the cancel token may be set and the   *)
(* deadline may pass.  Text, prompts and arguments are abstracted; a call  *)
(* is a tool name with its arguments.  Allocation never fails here.        *)
(***************************************************************************)
EXTENDS Integers, Sequences

CONSTANTS
    Calls,          \* tool calls a provider may ask for
    ToolOf,         \* the tool of a call
    Attaching,      \* tools whose result carries an attachment
    MaxIterations,  \* agent->max_tool_iterations
    Setups,         \* kinds of turn: see IsSetup
    MaxCalls        \* bound: tool calls in one response

Tools == {ToolOf[c] : c \in Calls}

(* A kind of turn: which implementation runs it, the tools it filters out  *)
(* or does not know, the calls refused by autonomy, injection or argument  *)
(* checks, the tools whose policy answers sc.tool.approval_required,       *)
(* whether it has a request_tool_approval callback, whether memory is on,  *)
(* how many messages the session's history holds, and whether it has a     *)
(* token or cost budget that a response may exceed.                        *)
IsSetup(s) ==
    /\ s.mode \in {"sync", "async"}
    /\ s.filtered \subseteq Tools /\ s.guarded \subseteq Tools
    /\ s.rejected \subseteq Calls
    /\ s.canApprove \in BOOLEAN /\ s.memory \in BOOLEAN /\ s.budget \in BOOLEAN
    /\ s.history \in Nat

ASSUME AgentAssumption ==
    /\ Attaching \subseteq Tools
    /\ MaxIterations \in Nat \ {0} /\ MaxCalls \in Nat \ {0}
    /\ \A s \in Setups : IsSetup(s)

VARIABLES
    setup,          \* the kind of turn
    pc,             \* where the turn is
    cancel,         \* turn_cancel_requested
    expired,        \* turn_deadline_expired
    old,            \* messages left of the history the turn started with
    iterations, providerCalls, retried,
    calls, index,   \* response.tool_calls and the one being executed
    denials,        \* approval_denials: tools
    grants,         \* approval_grants: calls
    successes,      \* successful_tools, in the order they were added
    replays,        \* replay_count of a cached success
    failures,       \* terminal_failures: tools
    receipts,       \* result.receipts: how many of a call record that it was carried out
    appended,       \* the turn's messages are in the history
    persisted,      \* persist_turn stored the turn
    events,         \* terminal turn events
    observed,       \* terminal observer events
    result,         \* status of the turn
    delivered,      \* receipts the caller got
    effects,        \* history: how often a call did its work
    okInLoop,       \* history: ... with success, in the current provider loop
    approved        \* history: calls the user approved

loopVars == <<denials, grants, successes, replays, failures>>
endVars == <<appended, persisted, events, observed, result, delivered>>
doneVars == <<effects, okInLoop, approved>>
callVars == <<calls, index>>
countVars == <<old, iterations, providerCalls, retried>>
vars == <<setup, pc, cancel, expired, countVars, callVars, loopVars, receipts, endVars, doneVars>>

Statuses == {"ok", "cancelled", "timeout", "error"}
(* "error" includes a result with success = false; "refused" is a denial or *)
(* an invalid call; "terminal" is UNSUPPORTED, which ends a tool's use;     *)
(* "repeated" is the refusal that follows it.                               *)
Outcomes == {"ok", "error", "refused", "terminal", "repeated", "cancelled", "approval"}
(* Outcomes after which the tool may have acted. *)
Effective == {"ok", "error", "cancelled"}

NoCalls == [c \in Calls |-> 0]

mode == setup.mode
Filtered == setup.filtered
Rejected == setup.rejected
NeedsApproval == setup.guarded
CanApprove == setup.canApprove
MemoryOn == setup.memory
Budget == setup.budget

Init ==
    /\ setup \in Setups
    /\ pc = "start"
    /\ cancel \in BOOLEAN /\ expired = FALSE
    /\ old = setup.history
    /\ iterations = 0 /\ providerCalls = 0 /\ retried = FALSE
    /\ calls = <<>> /\ index = 1
    /\ denials = {} /\ grants = {} /\ successes = <<>> /\ failures = {}
    /\ replays = NoCalls
    /\ receipts = NoCalls
    /\ appended = FALSE /\ persisted = FALSE
    /\ events = <<>> /\ observed = <<>>
    /\ result = "ok" /\ delivered = NoCalls
    /\ effects = NoCalls /\ okInLoop = NoCalls /\ approved = {}

-----------------------------------------------------------------------------
(* The environment: the token is set, the deadline passes, at any time. *)

CancelRequest ==
    /\ pc # "done" /\ ~cancel
    /\ cancel' = TRUE
    /\ UNCHANGED <<setup, pc, expired, countVars, callVars, loopVars, receipts, endVars, doneVars>>

DeadlinePasses ==
    /\ pc # "done" /\ ~expired
    /\ expired' = TRUE
    /\ UNCHANGED <<setup, pc, cancel, countVars, callVars, loopVars, receipts, endVars, doneVars>>

(* turn_check_continue *)
CheckContinue == IF cancel THEN "cancelled" ELSE IF expired THEN "timeout" ELSE "ok"

(* The end of a turn that did not succeed: one terminal turn event and one  *)
(* terminal observer event; the asynchronous callback gets no result.       *)
Fail(status, rs) ==
    /\ pc' = "done"
    /\ result' = status
    /\ events' = Append(events, status)
    /\ observed' = Append(observed, status)
    /\ delivered' = IF mode = "async" THEN NoCalls ELSE rs
    /\ UNCHANGED <<appended, persisted>>

(* The turn starts: early cancel; memory, prompt pruning, prompt. *)
StartCancelled ==
    /\ pc = "start" /\ cancel
    /\ IF mode = "sync"
       THEN /\ pc' = "done" /\ result' = "cancelled"
            /\ events' = Append(events, "cancelled")
            /\ UNCHANGED <<appended, persisted, observed, delivered>>
       ELSE /\ pc' = "done" /\ result' = "cancelled"
            /\ events' = events \o <<"cancelled", "cancelled">>
            /\ observed' = Append(observed, "cancelled")
            /\ UNCHANGED <<appended, persisted, delivered>>
    /\ UNCHANGED <<setup, cancel, expired, countVars, callVars, loopVars, receipts, doneVars>>

Start ==
    /\ pc = "start" /\ ~cancel
    /\ \/ /\ MemoryOn                                \* sc_memory_search failed
          /\ Fail("error", receipts)
          /\ UNCHANGED old
       \/ /\ CheckContinue # "ok"
          /\ Fail(CheckContinue, receipts)
          /\ UNCHANGED old
       \/ /\ CheckContinue = "ok"
          /\ old' \in 0..old                         \* prune_history_for_prompt_budget
          /\ pc' = "provider"
          /\ UNCHANGED endVars
    /\ UNCHANGED <<setup, cancel, expired, iterations, providerCalls, retried,
                   callVars, loopVars, receipts, doneVars>>

(* The head of the provider loop; agent_async_provider_next. *)
ProviderNext ==
    /\ pc = "provider"
    /\ \/ /\ iterations >= MaxIterations
          /\ Fail("cancelled", receipts)
          /\ UNCHANGED <<iterations, providerCalls>>
       \/ /\ iterations < MaxIterations /\ CheckContinue # "ok"
          /\ Fail(CheckContinue, receipts)
          /\ UNCHANGED <<iterations, providerCalls>>
       \/ /\ iterations < MaxIterations /\ CheckContinue = "ok"
          /\ iterations' = iterations + 1
          /\ providerCalls' = providerCalls + 1
          /\ pc' = "response"
          /\ UNCHANGED endVars
    /\ UNCHANGED <<setup, cancel, expired, old, retried, callVars, loopVars,
                   receipts, doneVars>>

(* The provider answers; agent_async_provider_ready. *)
ProviderAnswers ==
    /\ pc = "response"
    /\ \/ /\ Budget                                  \* result_exceeds_budget
          /\ Fail("cancelled", receipts)
          /\ UNCHANGED callVars
       \/ /\ \E n \in 0..MaxCalls : \E cs \in [1..n -> Calls] :
                /\ calls' = cs
                /\ index' = 1
                /\ pc' = IF n = 0 THEN "finalize" ELSE "tool"
          /\ UNCHANGED endVars
    /\ UNCHANGED <<setup, cancel, expired, old, iterations, providerCalls, retried,
                   loopVars, receipts, doneVars>>

(* An error of the provider, or a malformed or incomplete answer. *)
ProviderFails ==
    /\ pc = "response"
    /\ \E status \in Statuses \ {"ok"} : Fail(status, receipts)
    /\ UNCHANGED <<setup, cancel, expired, countVars, callVars, loopVars, receipts, doneVars>>

(* A context-overflow error: one retry with a smaller history.  The caches  *)
(* are local to run_provider_loop; agent_async_rebuild_prompt keeps the     *)
(* terminal failures.                                                       *)
ContextOverflow ==
    /\ pc = "response"
    /\ \/ /\ retried \/ old = 0
          /\ Fail("error", receipts)
          /\ UNCHANGED <<old, iterations, retried, loopVars, okInLoop>>
       \/ /\ ~retried /\ old > 0
          /\ retried' = TRUE
          /\ old' \in 0..old
          /\ iterations' = 0
          /\ denials' = {} /\ grants' = {} /\ successes' = <<>> /\ replays' = NoCalls
          /\ failures' = IF mode = "sync" THEN {} ELSE failures
          /\ okInLoop' = NoCalls
          /\ pc' = "provider"
          /\ UNCHANGED endVars
    /\ UNCHANGED <<setup, cancel, expired, providerCalls, callVars, receipts,
                   effects, approved>>

-----------------------------------------------------------------------------
(* One tool call of the response. *)
Call == calls[index]
ToolNow == ToolOf[Call]

(* tool_success_cache_find, then ..._find_attachment_by_name: the slots of  *)
(* the cache that answer the call, of which the first is used.              *)
SameCall(d) == d = Call
SameAttachment(d) == ToolOf[d] = ToolNow /\ ToolNow \in Attaching
ExactHits == {i \in DOMAIN successes : SameCall(successes[i])}
AttachmentHits == {i \in DOMAIN successes : SameAttachment(successes[i])}
(* Mutant: only the exact call is found in the cache. *)
CacheHitsExact == ExactHits
CacheHits == IF ExactHits # {} THEN ExactHits ELSE AttachmentHits
CacheEntry == successes[CHOOSE i \in CacheHits : \A j \in CacheHits : i <= j]

(* Mutant: the denials are not consulted. *)
PrecheckForgetsDenials ==
    IF ToolNow \in Filtered THEN "refused"
    ELSE IF ToolNow \in failures THEN "repeated"
    ELSE IF mode = "sync" /\ CacheHits # {} THEN "cached"
    ELSE IF Call \in Rejected THEN "refused"
    ELSE "invoke"

(* What execute_tool_calls and agent_async_tool_next do with the call. *)
Precheck ==
    IF ToolNow \in Filtered THEN "refused"
    ELSE IF ToolNow \in failures THEN "repeated"
    ELSE IF mode = "sync" /\ CacheHits # {} THEN "cached"
    ELSE IF Call \in Rejected THEN "refused"
    ELSE IF mode = "sync" /\ ToolNow \in denials THEN "refused"
    ELSE "invoke"

(* On to the next call, or back to the provider with the response cleared. *)
NextCall ==
    IF index < Len(calls)
    THEN pc' = "tool" /\ index' = index + 1 /\ UNCHANGED calls
    ELSE pc' = "provider" /\ index' = 1 /\ calls' = <<>>

(* Bookkeeping after a call: the receipt and the terminal failures; an      *)
(* outcome with code CANCELLED ends the turn, any other goes on.            *)
ToolFinish(outcome) ==
    LET rs == IF outcome \in Effective THEN [receipts EXCEPT ![Call] = @ + 1] ELSE receipts IN
    /\ receipts' = rs
    /\ failures' = IF outcome = "terminal" THEN failures \cup {ToolNow} ELSE failures
    /\ \/ /\ outcome \in {"cancelled", "approval"}
          /\ Fail("cancelled", rs)
          /\ UNCHANGED callVars
       \/ /\ outcome \notin {"cancelled", "approval"}
          /\ NextCall
          /\ UNCHANGED endVars

ToolStopped ==
    /\ pc = "tool" /\ CheckContinue # "ok"
    /\ Fail(CheckContinue, receipts)
    /\ UNCHANGED <<setup, cancel, expired, countVars, callVars, loopVars, receipts, doneVars>>

ToolRefused ==
    /\ pc = "tool" /\ CheckContinue = "ok"
    /\ Precheck \in {"refused", "repeated"}
    /\ ToolFinish(Precheck)
    /\ UNCHANGED <<setup, cancel, expired, countVars, denials, grants, successes,
                   replays, doneVars>>

(* A cached success is replayed; a second replay, or an attachment of the   *)
(* same tool, stops the provider loop with success.                         *)
ToolCached ==
    /\ pc = "tool" /\ CheckContinue = "ok"
    /\ Precheck = "cached"
    /\ LET entry == CacheEntry
           stop == entry # Call \/ replays[entry] > 0 IN
       /\ replays' = [replays EXCEPT ![entry] = @ + 1]
       /\ receipts' = [receipts EXCEPT ![Call] = @ + 1]
       /\ IF stop THEN pc' = "finalize" /\ calls' = <<>> /\ index' = 1 ELSE NextCall
    /\ UNCHANGED <<setup, cancel, expired, countVars, denials, grants, successes,
                   failures, endVars, doneVars>>

(* Mutant: the token is not checked before a tool. *)
ToolInvokeUnchecked ==
    /\ pc = "tool"
    /\ Precheck = "invoke"
    /\ pc' = "running"
    /\ UNCHANGED <<setup, cancel, expired, countVars, callVars, loopVars, receipts,
                   endVars, doneVars>>

ToolInvoke ==
    /\ pc = "tool" /\ CheckContinue = "ok"
    /\ Precheck = "invoke"
    /\ pc' = "running"
    /\ UNCHANGED <<setup, cancel, expired, countVars, callVars, loopVars, receipts,
                   endVars, doneVars>>

(* Mutant: an approval counts for every call of the tool. *)
AsksApprovalByName ==
    ToolNow \in NeedsApproval /\ ~(mode = "sync" /\ \E g \in grants : ToolOf[g] = ToolNow)

(* sc_tool_security_check_ex: policy answers before the tool acts, unless   *)
(* the approval override is set for the call.                               *)
AsksApproval == ToolNow \in NeedsApproval /\ ~(mode = "sync" /\ Call \in grants)

(* The tool returns; agent_async_tool_done. *)
ToolReturns ==
    /\ pc = "running" /\ ~AsksApproval
    /\ \E outcome \in Effective \cup {"refused", "terminal"} :
          /\ ToolFinish(outcome)
          /\ effects' = IF outcome \in Effective
                        THEN [effects EXCEPT ![Call] = @ + 1] ELSE effects
          /\ okInLoop' = IF outcome = "ok"
                         THEN [okInLoop EXCEPT ![Call] = @ + 1] ELSE okInLoop
          /\ successes' = IF outcome = "ok" /\ mode = "sync"
                             /\ ExactHits = {}
                          THEN Append(successes, Call) ELSE successes
    /\ UNCHANGED <<setup, cancel, expired, countVars, denials, grants, replays, approved>>

(* Mutant: without an approval callback nobody answers. *)
ApprovalNeededForgotten ==
    /\ pc = "running" /\ AsksApproval
    /\ mode = "sync" /\ CanApprove
    /\ pc' = "approval"
    /\ UNCHANGED <<setup, cancel, expired, countVars, callVars, loopVars, receipts, endVars, doneVars>>

(* The policy wants an approval: the user is asked, or the turn ends. *)
ApprovalNeeded ==
    /\ pc = "running" /\ AsksApproval
    /\ \/ /\ mode = "sync" /\ CanApprove
          /\ pc' = "approval"
          /\ UNCHANGED <<callVars, receipts, failures, endVars>>
       \/ /\ mode = "async" \/ ~CanApprove
          /\ ToolFinish("approval")
    /\ UNCHANGED <<setup, cancel, expired, countVars, denials, grants, successes,
                   replays, doneVars>>

(* The answer of request_turn_tool_approval; on approval the tool is        *)
(* invoked at once, with the override.                                      *)
Approved ==
    /\ pc = "approval"
    /\ grants' = grants \cup {Call}
    /\ approved' = approved \cup {Call}
    /\ pc' = "running"
    /\ UNCHANGED <<setup, cancel, expired, countVars, callVars, denials, successes, replays,
                   failures, receipts, endVars, effects, okInLoop>>

Declined ==
    /\ pc = "approval"
    /\ denials' = denials \cup {ToolNow}
    /\ ToolFinish("refused")
    /\ UNCHANGED <<setup, cancel, expired, countVars, grants, successes, replays, doneVars>>

ApprovalFails ==
    /\ pc = "approval"
    /\ \E outcome \in {"error", "cancelled", "terminal"} : ToolFinish(outcome)
    /\ UNCHANGED <<setup, cancel, expired, countVars, denials, grants, successes,
                   replays, doneVars>>

-----------------------------------------------------------------------------

(* The provider loop succeeded: last check, history, memory, report. *)
Finalize ==
    /\ pc = "finalize"
    /\ \/ /\ CheckContinue # "ok"
          /\ Fail(CheckContinue, receipts)
       \/ /\ CheckContinue = "ok"
          /\ pc' = "done"
          /\ appended' = TRUE
          /\ \/ /\ persisted' = MemoryOn
                /\ result' = "ok"
                /\ events' = Append(events, "completed")
                /\ observed' = Append(observed, "completed")
                /\ delivered' = receipts
             \/ /\ MemoryOn                          \* sc_memory_put failed
                /\ persisted' = FALSE
                /\ result' = "error"
                /\ events' = Append(events, "error")
                /\ observed' = Append(observed, "error")
                /\ delivered' = IF mode = "async" THEN NoCalls ELSE receipts
    /\ UNCHANGED <<setup, cancel, expired, countVars, callVars, loopVars, receipts, doneVars>>

TurnStep ==
    \/ StartCancelled
    \/ Start
    \/ ProviderNext
    \/ ProviderAnswers
    \/ ProviderFails
    \/ ContextOverflow
    \/ ToolStopped
    \/ ToolRefused
    \/ ToolCached
    \/ ToolInvoke
    \/ ToolReturns
    \/ ApprovalNeeded
    \/ Approved
    \/ Declined
    \/ ApprovalFails
    \/ Finalize

Next ==
    \/ CancelRequest
    \/ DeadlinePasses
    \/ TurnStep

Spec == Init /\ [][Next]_vars
(* Providers, tools and approval prompts answer: each has its own timeout. *)
FairSpec == Spec /\ WF_vars(TurnStep)

-----------------------------------------------------------------------------
(* Properties *)

(* Type invariant of the turn. *)
TypeOK ==
    /\ setup \in Setups
    /\ pc \in {"start", "provider", "response", "tool", "running", "approval", "finalize", "done"}
    /\ cancel \in BOOLEAN /\ expired \in BOOLEAN /\ retried \in BOOLEAN
    /\ old \in 0..setup.history
    /\ iterations \in 0..MaxIterations
    /\ providerCalls \in Nat
    /\ calls \in Seq(Calls) /\ Len(calls) <= MaxCalls
    /\ index \in 1..MaxCalls
    /\ denials \subseteq Tools /\ failures \subseteq Tools
    /\ grants \subseteq Calls /\ approved \subseteq Calls
    /\ successes \in Seq(Calls)
    /\ replays \in [Calls -> Nat]
    /\ effects \in [Calls -> Nat] /\ okInLoop \in [Calls -> Nat]
    /\ receipts \in [Calls -> Nat] /\ delivered \in [Calls -> Nat]
    /\ appended \in BOOLEAN /\ persisted \in BOOLEAN
    /\ events \in Seq(Statuses \cup {"completed"})
    /\ observed \in Seq(Statuses \cup {"completed"})
    /\ result \in Statuses

(* What the tools did is on record: the receipts the caller gets cover      *)
(* every effect, whatever ended the synchronous turn, and when an           *)
(* asynchronous one succeeds.                                               *)
EffectsDelivered ==
    (pc = "done" /\ (mode = "sync" \/ result = "ok"))
    => \A c \in Calls : effects[c] <= delivered[c]

(* A call whose tool needs approval acts only if the user approved this     *)
(* very call, name and arguments, during the turn.                          *)
ApprovalRespected ==
    \A c \in Calls : (effects[c] > 0 /\ ToolOf[c] \in NeedsApproval) => c \in approved

(* A call the turn filters, autonomy forbids or validation rejects never     *)
(* acts, whatever caches, approvals and retries came before.                *)
RefusedNeverActs ==
    \A c \in Calls : (ToolOf[c] \in Filtered \/ c \in Rejected) => effects[c] = 0

(* A tool the user declined is neither offered for approval nor run again   *)
(* in the same provider loop, whatever arguments the provider tries.        *)
DeclinedStaysDeclined ==
    [][ ((pc' = "approval" /\ pc # "approval") \/ effects' # effects) => ToolNow \notin denials ]_vars

(* A synchronous provider loop performs a call successfully at most once,   *)
(* and obtains at most one attachment from a tool.                          *)
NoRepeatedSuccess ==
    mode = "sync" =>
        /\ \A c \in Calls : okInLoop[c] <= 1
        /\ \A c, d \in Calls :
              (c # d /\ ToolOf[c] = ToolOf[d] /\ ToolOf[c] \in Attaching)
              => okInLoop[c] + okInLoop[d] <= 1

(* The overflow retry doubles the provider calls of a turn at most. *)
ProviderCallsBounded == providerCalls <= 2 * MaxIterations

(* A cancelled or timed-out turn leaves neither its messages in the history *)
(* nor a record in memory; a successful one leaves both.                    *)
TraceMatchesResult ==
    pc = "done" =>
        /\ result \in {"cancelled", "timeout"} => ~appended /\ ~persisted
        /\ result = "ok" => appended /\ (MemoryOn => persisted)

(* A turn that ends has emitted exactly one terminal observer event, of its *)
(* result, and its turn events say the same; only a synchronous turn whose  *)
(* token was set before it started emits none.                              *)
ReportedOnce ==
    pc = "done" =>
        \/ /\ observed = <<IF result = "ok" THEN "completed" ELSE result>>
           /\ events # <<>>
           /\ \A i \in DOMAIN events : events[i] = observed[1]
        \/ /\ observed = <<>> /\ events = <<"cancelled">>
           /\ mode = "sync" /\ providerCalls = 0 /\ result = "cancelled"

(* What a turn does is allowed, on record and bounded, whatever ends it:    *)
(* no effect without its approval or against a refusal, a receipt for each, *)
(* a history and memory that match the result, a bounded number of provider *)
(* calls (execute_tool_calls, agent_async_tool_next, finalize_turn).        *)
TurnSound ==
    /\ ApprovalRespected /\ RefusedNeverActs /\ EffectsDelivered
    /\ TraceMatchesResult /\ ProviderCallsBounded

(* A turn reports its end once and truly, and a synchronous one acts once   *)
(* on what the provider repeats (cached_tool_success, emit_turn_event).     *)
TurnReported == TypeOK /\ NoRepeatedSuccess /\ ReportedOnce

(* No tool is invoked once the token is set or the deadline has passed: the *)
(* check is made again for every call of a response.  (Not after an         *)
(* approval prompt: execute_tool_calls invokes the tool it asked about      *)
(* without a second check.)                                                 *)
NoUnaskedToolAfterCancel ==
    [][ (pc' = "running" /\ pc \notin {"running", "approval"})
            => ~cancel /\ ~expired ]_vars

(* Every turn ends. *)
TurnEnds == <>(pc = "done")
=============================================================================
