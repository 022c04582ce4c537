--------------------------- MODULE AgentTurnProofs ---------------------------
(***************************************************************************)
(* Proofs about AgentTurn, for any calls, tools, policies and limits, and  *)
(* about Cron, whose jobs are agent turns, for any jobs, schedules and     *)
(* commands.                                                               *)
(*                                                                         *)
(* The turn.  The inductive invariant says where each guarantee is kept    *)
(* between steps: a call that is being run or asked about has passed the   *)
(* checks; a grant is an approval of the user; what the tools did is in    *)
(* result.receipts; nothing is in the history before the turn is done; the *)
(* provider calls of a second provider loop come after at most             *)
(* MaxIterations of the first.                                             *)
(*                                                                         *)
(* Cron.  The inductive invariant says what a pass has behind it, which    *)
(* job the mark of a turn will be written to, and that the copy of a       *)
(* command that runs alone is its edit of what the finished ones left.     *)
(* The loops that read the file and fill the vector are recursive          *)
(* functions; what they give is shown by induction on the set of the       *)
(* numbers of rounds for which it holds.                                   *)
(***************************************************************************)
EXTENDS AgentTurn, Cron, SequenceTheorems, WellFoundedInduction, TLAPS

(* The part of the type invariant that the proofs use. *)
CoreType ==
    /\ setup \in Setups
    /\ calls \in Seq(Calls) /\ index \in Nat \ {0}
    /\ pc \in {"tool", "running", "approval"} => index <= Len(calls)
    /\ effects \in [Calls -> Nat] /\ receipts \in [Calls -> Nat] /\ delivered \in [Calls -> Nat]
    /\ iterations \in 0..MaxIterations /\ providerCalls \in Nat
    /\ retried \in BOOLEAN

(* Approvals, refusals and denials. *)
PolicyInv ==
    /\ grants \subseteq approved
    /\ pc \in {"running", "approval"} =>
          ToolNow \notin Filtered /\ Call \notin Rejected /\ ToolNow \notin denials
    /\ mode = "async" => denials = {} /\ pc # "approval"
    /\ ApprovalRespected
    /\ RefusedNeverActs

(* Receipts. *)
ReceiptInv ==
    /\ \A c \in Calls : effects[c] <= receipts[c]
    /\ pc = "start" => \A c \in Calls : effects[c] = 0
    /\ EffectsDelivered

(* History and memory. *)
TraceInv ==
    /\ pc # "done" => ~appended /\ ~persisted
    /\ TraceMatchesResult

(* Provider calls. *)
CountInv ==
    /\ ~retried => providerCalls <= iterations
    /\ retried => providerCalls <= MaxIterations + iterations

AgentInv == CoreType /\ PolicyInv /\ ReceiptInv /\ TraceInv /\ CountInv

-----------------------------------------------------------------------------
(* The call of a step is a call. *)
LEMMA CallType ==
    ASSUME CoreType, pc \in {"tool", "running", "approval"}
    PROVE  Call \in Calls
BY DEF CoreType, Call

(* NextCall stays within the response. *)
LEMMA NextCallKeeps ==
    ASSUME CoreType, pc \in {"tool", "running", "approval"}, NextCall
    PROVE  /\ calls' \in Seq(Calls) /\ index' \in Nat \ {0}
           /\ pc' \in {"tool", "provider"}
           /\ pc' = "tool" => index' <= Len(calls')
<1>1. CASE index < Len(calls)
    BY <1>1 DEF NextCall, CoreType
<1>2. CASE ~(index < Len(calls))
    BY <1>2 DEF NextCall, CoreType
<1> QED
    BY <1>1, <1>2

(* The end of a failed turn: what Fail leaves behind. *)
LEMMA FailKeeps ==
    ASSUME NEW status, NEW rs \in [Calls -> Nat], Fail(status, rs),
           pc # "done", TraceInv, status # "ok",
           setup' = setup
    PROVE  /\ pc' = "done" /\ TraceInv'
           /\ delivered' \in [Calls -> Nat]
           /\ mode' = "sync" => delivered' = rs
           /\ result' # "ok"
<1>1. /\ pc' = "done" /\ result' = status
      /\ delivered' = IF mode = "async" THEN NoCalls ELSE rs
      /\ appended' = appended /\ persisted' = persisted
    BY DEF Fail
<1>2. mode' = mode
    BY DEF mode
<1>3. NoCalls \in [Calls -> Nat]
    BY DEF NoCalls
<1>4. delivered' \in [Calls -> Nat]
    BY <1>1, <1>3
<1>5. ~appended' /\ ~persisted'
    BY <1>1 DEF TraceInv
<1>6. TraceInv'
    BY <1>1, <1>5 DEF TraceInv, TraceMatchesResult
<1> QED
    BY <1>1, <1>2, <1>4, <1>6

(* A turn that fails with its receipts keeps the whole invariant. *)
LEMMA FailStep ==
    ASSUME AgentInv, pc # "done", NEW status, status # "ok", Fail(status, receipts),
           UNCHANGED <<setup, iterations, providerCalls, retried, calls, index, receipts,
                       denials, grants, approved, effects>>
    PROVE  AgentInv'
<1>1. /\ pc' = "done" /\ TraceInv' /\ delivered' \in [Calls -> Nat]
      /\ mode' = "sync" => delivered' = receipts
      /\ result' # "ok"
    BY FailKeeps DEF AgentInv, CoreType
<1>2. CoreType'
    BY <1>1 DEF AgentInv, CoreType
<1>3. PolicyInv'
    BY <1>1 DEF AgentInv, PolicyInv, ApprovalRespected, RefusedNeverActs, mode, Filtered, Rejected,
                NeedsApproval
<1>4. ReceiptInv'
    BY <1>1 DEF AgentInv, ReceiptInv, EffectsDelivered
<1>5. CountInv'
    BY DEF AgentInv, CountInv
<1> QED
    BY <1>1, <1>2, <1>3, <1>4, <1>5 DEF AgentInv

(* The bookkeeping after a tool call, whatever the outcome: it keeps the    *)
(* invariant if the policies still hold and the receipts cover the effects. *)
LEMMA ToolFinishStep ==
    ASSUME AgentInv, pc \in {"tool", "running", "approval"}, NEW outcome, ToolFinish(outcome),
           UNCHANGED <<setup, iterations, providerCalls, retried>>,
           grants' \subseteq approved',
           mode = "async" => denials' = {},
           ApprovalRespected', RefusedNeverActs',
           effects' \in [Calls -> Nat],
           \A c \in Calls : effects'[c] <= receipts'[c]
    PROVE  AgentInv'
<1> DEFINE rs == IF outcome \in Effective THEN [receipts EXCEPT ![Call] = @ + 1] ELSE receipts
<1>1. receipts' = rs /\ rs \in [Calls -> Nat]
  <2>1. Call \in Calls /\ receipts \in [Calls -> Nat]
      BY CallType DEF AgentInv, CoreType
  <2>2. receipts' = rs
      BY DEF ToolFinish
  <2>3. rs \in [Calls -> Nat]
      BY <2>1
  <2> QED
      BY <2>2, <2>3
<1>2. CASE outcome \in {"cancelled", "approval"}
  <2>1. Fail("cancelled", rs) /\ UNCHANGED callVars
      BY <1>2 DEF ToolFinish
  <2> HIDE DEF rs
  <2>2. /\ pc' = "done" /\ TraceInv' /\ delivered' \in [Calls -> Nat]
        /\ mode' = "sync" => delivered' = rs
        /\ result' # "ok"
      BY <1>1, <2>1, FailKeeps DEF AgentInv
  <2>3. CoreType'
      BY <1>1, <2>1, <2>2 DEF AgentInv, CoreType, callVars
  <2>4. PolicyInv'
      BY <2>2 DEF AgentInv, PolicyInv, mode
  <2>5. ReceiptInv'
      BY <1>1, <2>2 DEF AgentInv, ReceiptInv, EffectsDelivered
  <2>6. CountInv'
      BY DEF AgentInv, CountInv
  <2> QED
      BY <2>2, <2>3, <2>4, <2>5, <2>6 DEF AgentInv
<1>3. CASE outcome \notin {"cancelled", "approval"}
  <2>1. NextCall /\ UNCHANGED endVars
      BY <1>3 DEF ToolFinish
  <2> HIDE DEF rs
  <2>2. /\ calls' \in Seq(Calls) /\ index' \in Nat \ {0}
        /\ pc' \in {"tool", "provider"}
        /\ pc' = "tool" => index' <= Len(calls')
      BY <2>1, NextCallKeeps DEF AgentInv
  <2>3. CoreType'
      BY <1>1, <2>1, <2>2 DEF AgentInv, CoreType, endVars
  <2>4. PolicyInv'
      BY <2>2 DEF AgentInv, PolicyInv, mode
  <2>5. ReceiptInv'
      BY <2>2 DEF AgentInv, ReceiptInv, EffectsDelivered
  <2>6. TraceInv'
      BY <2>1, <2>2 DEF AgentInv, TraceInv, TraceMatchesResult, endVars
  <2>7. CountInv'
      BY DEF AgentInv, CountInv
  <2> QED
      BY <2>3, <2>4, <2>5, <2>6, <2>7 DEF AgentInv
<1> QED
    BY <1>2, <1>3

(* The receipt of a call never takes one away. *)
LEMMA ReceiptsGrow ==
    ASSUME CoreType, pc \in {"tool", "running", "approval"}, NEW outcome, ToolFinish(outcome)
    PROVE  \A c \in Calls : /\ receipts[c] <= receipts'[c]
                            /\ (c = Call /\ outcome \in Effective) => receipts'[c] = receipts[c] + 1
<1>1. Call \in Calls /\ receipts \in [Calls -> Nat]
    BY CallType DEF CoreType
<1>2. receipts' = IF outcome \in Effective THEN [receipts EXCEPT ![Call] = @ + 1] ELSE receipts
    BY DEF ToolFinish
<1> QED
    BY <1>1, <1>2

(* A step that only changes where the turn is. *)
LEMMA MoveStep ==
    ASSUME AgentInv, pc \notin {"start", "done"}, pc' \in {"provider", "response", "finalize"},
           UNCHANGED <<setup, endVars, receipts, effects, approved>>,
           calls' \in Seq(Calls), index' \in Nat \ {0},
           grants' \subseteq approved', mode = "async" => denials' = {},
           iterations' \in 0..MaxIterations, providerCalls' \in Nat, retried' \in BOOLEAN,
           CountInv'
    PROVE  AgentInv'
<1>1. CoreType'
    BY DEF AgentInv, CoreType, endVars
<1>2. PolicyInv'
    BY DEF AgentInv, PolicyInv, mode, ApprovalRespected, RefusedNeverActs, NeedsApproval, Filtered,
           Rejected
<1>3. ReceiptInv'
    BY DEF AgentInv, ReceiptInv, EffectsDelivered
<1>4. TraceInv'
    BY DEF AgentInv, TraceInv, TraceMatchesResult, endVars
<1> QED
    BY <1>1, <1>2, <1>3, <1>4 DEF AgentInv

-----------------------------------------------------------------------------
LEMMA AgentInit == ASSUME Init PROVE AgentInv
<1> USE DEF Init
<1>1. NoCalls \in [Calls -> Nat] /\ \A c \in Calls : NoCalls[c] = 0
    BY DEF NoCalls
<1>2. CoreType
  <2>1. calls \in Seq(Calls)
      OBVIOUS
  <2>2. iterations \in 0..MaxIterations /\ providerCalls \in Nat
      BY AgentAssumption
  <2>3. setup \in Setups /\ index \in Nat \ {0}
      OBVIOUS
  <2>4. retried \in BOOLEAN
    <3>1. retried = FALSE
        OBVIOUS
    <3> HIDE DEF Init
    <3> QED
        BY <3>1
  <2>5. pc \notin {"tool", "running", "approval"}
      OBVIOUS
  <2>6. effects \in [Calls -> Nat] /\ receipts \in [Calls -> Nat] /\ delivered \in [Calls -> Nat]
      BY <1>1
  <2> HIDE DEF Init
  <2> QED
      BY <2>1, <2>2, <2>3, <2>4, <2>5, <2>6 DEF CoreType
<1>3. PolicyInv
    BY <1>1 DEF PolicyInv, ApprovalRespected, RefusedNeverActs
<1>4. ReceiptInv
    BY <1>1 DEF ReceiptInv, EffectsDelivered
<1>5. TraceInv /\ CountInv
    BY DEF TraceInv, TraceMatchesResult, CountInv
<1> QED
    BY <1>2, <1>3, <1>4, <1>5 DEF AgentInv

(* Every step keeps the invariant: one case per action. *)
LEMMA AgentStep == ASSUME AgentInv, [Next]_vars PROVE AgentInv'
<1> USE DEF countVars, callVars, loopVars, doneVars
<1>1. CASE CancelRequest \/ DeadlinePasses \/ UNCHANGED vars
  <2>1. UNCHANGED <<setup, pc, countVars, callVars, loopVars, receipts, endVars, doneVars>>
      BY <1>1 DEF CancelRequest, DeadlinePasses, vars
  <2> QED
      BY <2>1 DEF AgentInv, CoreType, PolicyInv, ReceiptInv, TraceInv, CountInv, ApprovalRespected,
         RefusedNeverActs, EffectsDelivered, TraceMatchesResult, endVars, mode, Filtered, Rejected,
         NeedsApproval, MemoryOn, Call, ToolNow
<1>2. CASE StartCancelled
  <2>1. /\ pc = "start" /\ pc' = "done" /\ result' = "cancelled"
        /\ UNCHANGED <<appended, persisted, delivered, setup, countVars, callVars, loopVars, receipts, doneVars>>
      BY <1>2 DEF StartCancelled
  <2>2. CoreType' /\ CountInv'
      BY <2>1 DEF AgentInv, CoreType, CountInv
  <2>3. PolicyInv'
      BY <2>1 DEF AgentInv, PolicyInv, ApprovalRespected, RefusedNeverActs, mode, Filtered, Rejected,
         NeedsApproval
  <2>4. ReceiptInv'
      BY <2>1 DEF AgentInv, ReceiptInv, EffectsDelivered, CoreType
  <2>5. TraceInv'
      BY <2>1 DEF AgentInv, TraceInv, TraceMatchesResult
  <2> QED
      BY <2>2, <2>3, <2>4, <2>5 DEF AgentInv
<1>3. CASE Start
  <2>1. /\ pc = "start"
        /\ UNCHANGED <<setup, iterations, providerCalls, retried, callVars, loopVars, receipts, doneVars>>
      BY <1>3 DEF Start
  <2>2. CASE \E status \in {"error", CheckContinue} : status # "ok" /\ Fail(status, receipts)
      BY <2>1, <2>2, FailStep
  <2>3. CASE pc' = "provider" /\ UNCHANGED endVars
    <3>1. CoreType' /\ CountInv'
        BY <2>1, <2>3 DEF AgentInv, CoreType, CountInv, endVars
    <3>2. PolicyInv'
        BY <2>1, <2>3 DEF AgentInv, PolicyInv, ApprovalRespected, RefusedNeverActs, mode, Filtered,
           Rejected, NeedsApproval
    <3>3. ReceiptInv' /\ TraceInv'
        BY <2>1, <2>3 DEF AgentInv, ReceiptInv, EffectsDelivered, TraceInv, TraceMatchesResult, endVars
    <3> QED
        BY <3>1, <3>2, <3>3 DEF AgentInv
  <2> QED
      BY <1>3, <2>2, <2>3 DEF Start
<1>4. CASE ProviderNext
  <2>1. /\ pc = "provider"
        /\ UNCHANGED <<setup, retried, callVars, loopVars, receipts, doneVars>>
      BY <1>4 DEF ProviderNext
  <2>2. CASE /\ \E status \in {"cancelled", CheckContinue} : status # "ok" /\ Fail(status, receipts)
             /\ UNCHANGED <<iterations, providerCalls>>
      BY <2>1, <2>2, FailStep
  <2>3. CASE /\ iterations < MaxIterations /\ iterations' = iterations + 1
             /\ providerCalls' = providerCalls + 1 /\ pc' = "response" /\ UNCHANGED endVars
    <3>1. iterations' \in 0..MaxIterations /\ providerCalls' \in Nat /\ CountInv'
        BY <2>1, <2>3, AgentAssumption DEF AgentInv, CoreType, CountInv
    <3>2. /\ calls' \in Seq(Calls) /\ index' \in Nat \ {0} /\ retried' \in BOOLEAN
          /\ grants' \subseteq approved' /\ (mode = "async" => denials' = {})
        BY <2>1 DEF AgentInv, CoreType, PolicyInv
    <3> QED
        BY <2>1, <2>3, <3>1, <3>2, MoveStep
  <2> QED
      BY <1>4, <2>2, <2>3 DEF ProviderNext
<1>5. CASE ProviderAnswers
  <2>1. /\ pc = "response"
        /\ UNCHANGED <<setup, iterations, providerCalls, retried, loopVars, receipts, doneVars>>
      BY <1>5 DEF ProviderAnswers
  <2>2. CASE Fail("cancelled", receipts) /\ UNCHANGED callVars
      BY <2>1, <2>2, FailStep
  <2>3. ASSUME NEW n \in 0..MaxCalls, NEW cs \in [1..n -> Calls],
               calls' = cs, index' = 1, pc' = IF n = 0 THEN "finalize" ELSE "tool", UNCHANGED endVars
        PROVE  AgentInv'
    <3>1. cs \in Seq(Calls) /\ Len(cs) = n
        BY AgentAssumption, <2>3
    <3>2. CoreType' /\ CountInv'
        BY <2>1, <2>3, <3>1 DEF AgentInv, CoreType, CountInv, endVars
    <3>3. PolicyInv'
        BY <2>1, <2>3 DEF AgentInv, PolicyInv, ApprovalRespected, RefusedNeverActs, mode, Filtered,
           Rejected, NeedsApproval
    <3>4. ReceiptInv' /\ TraceInv'
        BY <2>1, <2>3 DEF AgentInv, ReceiptInv, EffectsDelivered, TraceInv, TraceMatchesResult, endVars
    <3> QED
        BY <3>2, <3>3, <3>4 DEF AgentInv
  <2> QED
      BY <1>5, <2>2, <2>3 DEF ProviderAnswers
<1>6. CASE ProviderFails
  <2>1. /\ pc = "response" /\ UNCHANGED <<setup, countVars, callVars, loopVars, receipts, doneVars>>
        /\ \E status \in Statuses \ {"ok"} : Fail(status, receipts)
      BY <1>6 DEF ProviderFails
  <2> QED
      BY <2>1, FailStep
<1>7. CASE ContextOverflow
  <2>1. pc = "response" /\ UNCHANGED <<setup, providerCalls, callVars, receipts, effects, approved>>
      BY <1>7 DEF ContextOverflow
  <2>2. CASE Fail("error", receipts) /\ UNCHANGED <<old, iterations, retried, loopVars, okInLoop>>
      BY <2>1, <2>2, FailStep
  <2>3. CASE /\ ~retried /\ retried' = TRUE /\ iterations' = 0 /\ denials' = {} /\ grants' = {}
             /\ pc' = "provider" /\ UNCHANGED endVars
    <3>1. iterations' \in 0..MaxIterations /\ CountInv'
        BY <2>1, <2>3, AgentAssumption DEF AgentInv, CoreType, CountInv
    <3>2. calls' \in Seq(Calls) /\ index' \in Nat \ {0} /\ providerCalls' \in Nat
        BY <2>1 DEF AgentInv, CoreType
    <3> QED
        BY <2>1, <2>3, <3>1, <3>2, MoveStep
  <2> QED
      BY <1>7, <2>2, <2>3 DEF ContextOverflow
<1>8. CASE ToolStopped
  <2>1. /\ pc = "tool" /\ UNCHANGED <<setup, countVars, callVars, loopVars, receipts, doneVars>>
        /\ CheckContinue # "ok" /\ Fail(CheckContinue, receipts)
      BY <1>8 DEF ToolStopped
  <2> QED
      BY <2>1, FailStep
<1>9. CASE ToolRefused
  <2>1. /\ pc = "tool" /\ Precheck \in {"refused", "repeated"} /\ ToolFinish(Precheck)
        /\ UNCHANGED <<setup, countVars, denials, grants, doneVars>>
      BY <1>9 DEF ToolRefused
  <2>2. \A c \in Calls : effects'[c] <= receipts'[c]
    <3>1. \A c \in Calls : receipts[c] <= receipts'[c]
        BY <2>1, ReceiptsGrow DEF AgentInv
    <3>2. receipts' \in [Calls -> Nat]
        BY <2>1, CallType DEF AgentInv, CoreType, ToolFinish, Effective
    <3> QED
        BY <2>1, <3>1, <3>2 DEF AgentInv, ReceiptInv, CoreType
  <2>3. ApprovalRespected' /\ RefusedNeverActs'
      BY <2>1 DEF AgentInv, PolicyInv, ApprovalRespected, RefusedNeverActs, NeedsApproval, Filtered,
         Rejected
  <2>4. /\ grants' \subseteq approved' /\ (mode = "async" => denials' = {})
        /\ effects' \in [Calls -> Nat]
      BY <2>1 DEF AgentInv, PolicyInv, CoreType
  <2> QED
      BY <2>1, <2>2, <2>3, <2>4, ToolFinishStep
<1>10. CASE ToolCached
  <2>1. /\ pc = "tool"
        /\ UNCHANGED <<setup, countVars, denials, grants, endVars, doneVars>>
        /\ receipts' = [receipts EXCEPT ![Call] = @ + 1]
        /\ (pc' = "finalize" /\ calls' = <<>> /\ index' = 1) \/ NextCall
      BY <1>10 DEF ToolCached
  <2>2. /\ calls' \in Seq(Calls) /\ index' \in Nat \ {0}
        /\ pc' \in {"tool", "provider", "finalize"}
        /\ pc' = "tool" => index' <= Len(calls')
    <3>1. CASE pc' = "finalize" /\ calls' = <<>> /\ index' = 1
      <4>1. <<>> \in Seq(Calls)
          OBVIOUS
      <4> QED
          BY <3>1, <4>1
    <3>2. CASE NextCall
        BY <2>1, <3>2, NextCallKeeps DEF AgentInv
    <3> QED
        BY <2>1, <3>1, <3>2
  <2>3. receipts' \in [Calls -> Nat] /\ \A c \in Calls : receipts[c] <= receipts'[c]
    <3>1. Call \in Calls /\ receipts \in [Calls -> Nat]
        BY <2>1, CallType DEF AgentInv, CoreType
    <3> QED
        BY <2>1, <3>1
  <2>4. CoreType' /\ CountInv'
      BY <2>1, <2>2, <2>3 DEF AgentInv, CoreType, CountInv, endVars
  <2>5. PolicyInv'
      BY <2>1, <2>2 DEF AgentInv, PolicyInv, ApprovalRespected, RefusedNeverActs, mode, Filtered,
         Rejected, NeedsApproval
  <2>6. ReceiptInv'
    <3>1. \A c \in Calls : effects'[c] <= receipts'[c]
      <4> SUFFICES ASSUME NEW c \in Calls PROVE effects'[c] <= receipts'[c]
          OBVIOUS
      <4>1. effects[c] <= receipts[c] /\ effects[c] \in Nat /\ receipts[c] \in Nat
          BY DEF AgentInv, CoreType, ReceiptInv
      <4>2. receipts[c] <= receipts'[c] /\ receipts'[c] \in Nat /\ effects'[c] = effects[c]
          BY <2>1, <2>3
      <4> QED
          BY <4>1, <4>2
    <3> QED
        BY <2>2, <3>1 DEF ReceiptInv, EffectsDelivered
  <2>7. TraceInv'
      BY <2>1, <2>2 DEF AgentInv, TraceInv, TraceMatchesResult, endVars
  <2> QED
      BY <2>4, <2>5, <2>6, <2>7 DEF AgentInv
<1>11. CASE ToolInvoke
  <2>1. /\ pc = "tool" /\ Precheck = "invoke" /\ pc' = "running"
        /\ UNCHANGED <<setup, countVars, callVars, loopVars, receipts, endVars, doneVars>>
      BY <1>11 DEF ToolInvoke
  <2>2. ToolNow \notin Filtered /\ Call \notin Rejected /\ (mode = "sync" => ToolNow \notin denials)
      BY <2>1 DEF Precheck
  <2>3. mode \in {"sync", "async"}
      BY AgentAssumption DEF AgentInv, CoreType, mode, IsSetup
  <2>4. CoreType' /\ CountInv'
      BY <2>1 DEF AgentInv, CoreType, CountInv, endVars
  <2>5. PolicyInv'
      BY <2>1, <2>2, <2>3 DEF AgentInv, PolicyInv, ApprovalRespected, RefusedNeverActs, mode, Filtered,
         Rejected, NeedsApproval, Call, ToolNow
  <2>6. ReceiptInv' /\ TraceInv'
      BY <2>1 DEF AgentInv, ReceiptInv, EffectsDelivered, TraceInv, TraceMatchesResult, endVars
  <2> QED
      BY <2>4, <2>5, <2>6 DEF AgentInv
<1>12. CASE ToolReturns
  <2>1. PICK outcome \in Effective \cup {"refused", "terminal"} :
           /\ ToolFinish(outcome)
           /\ effects' = IF outcome \in Effective THEN [effects EXCEPT ![Call] = @ + 1] ELSE effects
      BY <1>12 DEF ToolReturns
  <2>2. pc = "running" /\ ~AsksApproval /\ UNCHANGED <<setup, countVars, denials, grants, approved>>
      BY <1>12 DEF ToolReturns
  <2>3. Call \in Calls /\ effects \in [Calls -> Nat] /\ receipts \in [Calls -> Nat]
      BY <2>2, CallType DEF AgentInv, CoreType
  <2>4. /\ effects' \in [Calls -> Nat]
        /\ \A c \in Calls : c # Call => effects'[c] = effects[c]
        /\ \A c \in Calls : effects'[c] = IF c = Call /\ outcome \in Effective THEN effects[c] + 1
                                                                            ELSE effects[c]
      BY <2>1, <2>3
  <2>5. \A c \in Calls : effects'[c] <= receipts'[c]
    <3>1. receipts' \in [Calls -> Nat]
      <4>1. receipts' = IF outcome \in Effective THEN [receipts EXCEPT ![Call] = @ + 1] ELSE receipts
          BY <2>1 DEF ToolFinish
      <4> QED
          BY <2>3, <4>1
    <3>2. \A c \in Calls : /\ receipts[c] <= receipts'[c]
                           /\ (c = Call /\ outcome \in Effective) => receipts'[c] = receipts[c] + 1
        BY <2>1, <2>2, ReceiptsGrow DEF AgentInv
    <3> QED
        BY <2>3, <2>4, <3>1, <3>2 DEF AgentInv, ReceiptInv
  <2>6. ApprovalRespected'
    <3>1. ToolNow \in NeedsApproval => Call \in approved
        BY <2>2 DEF AsksApproval, AgentInv, PolicyInv
    <3> QED
        BY <2>2, <2>4, <3>1 DEF AgentInv, PolicyInv, ApprovalRespected, NeedsApproval, ToolNow
  <2>7. RefusedNeverActs'
    <3>1. ToolNow \notin Filtered /\ Call \notin Rejected
        BY <2>2 DEF AgentInv, PolicyInv
    <3> QED
        BY <2>2, <2>4, <3>1 DEF AgentInv, PolicyInv, RefusedNeverActs, Filtered, Rejected, ToolNow
  <2>8. grants' \subseteq approved' /\ (mode = "async" => denials' = {})
      BY <2>2 DEF AgentInv, PolicyInv
  <2> QED
      BY <2>1, <2>2, <2>4, <2>5, <2>6, <2>7, <2>8, ToolFinishStep
<1>13. ASSUME NEW outcome, ToolFinish(outcome), pc \in {"running", "approval"},
              UNCHANGED <<setup, countVars, grants, doneVars>>,
              denials' = denials \/ mode # "async"
       PROVE  AgentInv'
  <2>1. \A c \in Calls : effects'[c] <= receipts'[c]
    <3>1. Call \in Calls /\ receipts \in [Calls -> Nat]
        BY <1>13, CallType DEF AgentInv, CoreType
    <3>2. receipts' = IF outcome \in Effective THEN [receipts EXCEPT ![Call] = @ + 1] ELSE receipts
        BY <1>13 DEF ToolFinish
    <3>3. receipts' \in [Calls -> Nat] /\ \A c \in Calls : receipts[c] <= receipts'[c]
        BY <3>1, <3>2
    <3> QED
        BY <1>13, <3>1, <3>3 DEF AgentInv, ReceiptInv, CoreType
  <2>2. ApprovalRespected' /\ RefusedNeverActs'
      BY <1>13 DEF AgentInv, PolicyInv, ApprovalRespected, RefusedNeverActs, NeedsApproval, Filtered,
         Rejected
  <2>3. /\ grants' \subseteq approved' /\ (mode = "async" => denials' = {})
        /\ effects' \in [Calls -> Nat]
      BY <1>13 DEF AgentInv, PolicyInv, CoreType
  <2> QED
      BY <1>13, <2>1, <2>2, <2>3, ToolFinishStep
<1>14. CASE ApprovalNeeded
  <2>1. pc = "running" /\ UNCHANGED <<setup, countVars, denials, grants, doneVars>>
      BY <1>14 DEF ApprovalNeeded
  <2>2. CASE mode = "sync" /\ pc' = "approval" /\ UNCHANGED <<callVars, receipts, failures, endVars>>
    <3>1. CoreType' /\ CountInv'
        BY <2>1, <2>2 DEF AgentInv, CoreType, CountInv, endVars
    <3>2. PolicyInv'
        BY <2>1, <2>2 DEF AgentInv, PolicyInv, ApprovalRespected, RefusedNeverActs, mode, Filtered,
           Rejected, NeedsApproval, Call, ToolNow
    <3>3. ReceiptInv' /\ TraceInv'
        BY <2>1, <2>2 DEF AgentInv, ReceiptInv, EffectsDelivered, TraceInv, TraceMatchesResult, endVars
    <3> QED
        BY <3>1, <3>2, <3>3 DEF AgentInv
  <2>3. CASE ToolFinish("approval")
      BY <2>1, <2>3, <1>13
  <2> QED
      BY <1>14, <2>2, <2>3 DEF ApprovalNeeded
<1>15. CASE Approved
  <2>1. /\ pc = "approval" /\ pc' = "running"
        /\ grants' = grants \cup {Call} /\ approved' = approved \cup {Call}
        /\ UNCHANGED <<setup, countVars, callVars, denials, receipts, endVars, effects>>
      BY <1>15 DEF Approved
  <2>2. CoreType' /\ CountInv'
      BY <2>1 DEF AgentInv, CoreType, CountInv, endVars
  <2>3. PolicyInv'
      BY <2>1 DEF AgentInv, PolicyInv, ApprovalRespected, RefusedNeverActs, mode, Filtered, Rejected,
         NeedsApproval, Call, ToolNow
  <2>4. ReceiptInv' /\ TraceInv'
      BY <2>1 DEF AgentInv, ReceiptInv, EffectsDelivered, TraceInv, TraceMatchesResult, endVars
  <2> QED
      BY <2>2, <2>3, <2>4 DEF AgentInv
<1>16. CASE Declined
  <2>1. pc = "approval" /\ ToolFinish("refused") /\ UNCHANGED <<setup, countVars, grants, doneVars>>
      BY <1>16 DEF Declined
  <2>2. mode # "async"
      BY <2>1 DEF AgentInv, PolicyInv
  <2> QED
      BY <2>1, <2>2, <1>13
<1>17. CASE ApprovalFails
  <2>1. /\ pc = "approval" /\ UNCHANGED <<setup, countVars, denials, grants, doneVars>>
        /\ \E outcome \in {"error", "cancelled", "terminal"} : ToolFinish(outcome)
      BY <1>17 DEF ApprovalFails
  <2> QED
      BY <2>1, <1>13
<1>18. CASE Finalize
  <2>1. pc = "finalize" /\ UNCHANGED <<setup, countVars, callVars, loopVars, receipts, doneVars>>
      BY <1>18 DEF Finalize
  <2>2. CASE CheckContinue # "ok" /\ Fail(CheckContinue, receipts)
      BY <2>1, <2>2, FailStep
  <2>3. CASE /\ pc' = "done" /\ appended' = TRUE
             /\ \/ persisted' = MemoryOn /\ result' = "ok" /\ delivered' = receipts
                \/ /\ persisted' = FALSE /\ result' = "error"
                   /\ delivered' = IF mode = "async" THEN NoCalls ELSE receipts
    <3>1. NoCalls \in [Calls -> Nat]
        BY DEF NoCalls
    <3>2. CoreType' /\ CountInv'
        BY <2>1, <2>3, <3>1 DEF AgentInv, CoreType, CountInv
    <3>3. PolicyInv'
        BY <2>1, <2>3 DEF AgentInv, PolicyInv, ApprovalRespected, RefusedNeverActs, mode, Filtered,
           Rejected, NeedsApproval
    <3>4. ReceiptInv'
        BY <2>1, <2>3 DEF AgentInv, ReceiptInv, EffectsDelivered, mode
    <3>5. TraceInv'
        BY <2>1, <2>3 DEF AgentInv, TraceInv, TraceMatchesResult, MemoryOn
    <3> QED
        BY <3>2, <3>3, <3>4, <3>5 DEF AgentInv
  <2> QED
      BY <1>18, <2>2, <2>3 DEF Finalize
<1> QED
    BY <1>1, <1>2, <1>3, <1>4, <1>5, <1>6, <1>7, <1>8, <1>9, <1>10, <1>11, <1>12, <1>14, <1>15,
       <1>16, <1>17, <1>18 DEF Next, TurnStep

-----------------------------------------------------------------------------
(* For any tools, policies and providers, in both implementations of the    *)
(* turn: a tool that needs approval acts only on approved calls, refused    *)
(* calls never act, effects are covered by receipts, a turn that did not    *)
(* succeed leaves no trace in history or memory when it was cancelled, and  *)
(* the overflow retry at most doubles the provider calls.                   *)
THEOREM TurnCorrect ==
    Spec => []TurnSound
<1>1. Init => AgentInv
    BY AgentInit
<1>2. AgentInv /\ [Next]_vars => AgentInv'
    BY AgentStep
<1>3. AgentInv => ProviderCallsBounded
    BY AgentAssumption DEF AgentInv, CountInv, CoreType, ProviderCallsBounded
<1>4. AgentInv => TurnSound
    BY <1>3 DEF AgentInv, PolicyInv, ReceiptInv, TraceInv, TurnSound
<1> QED
    BY <1>1, <1>2, <1>4, PTL DEF Spec

(* A tool the user declined is neither offered again nor run in the same    *)
(* provider loop (approval_denials of execute_tool_calls).                  *)
THEOREM DeclinedStaysDeclinedHolds == Spec => DeclinedStaysDeclined
<1>1. Init => AgentInv
    BY AgentInit
<1>2. AgentInv /\ [Next]_vars => AgentInv'
    BY AgentStep
<1>3. ASSUME AgentInv, [Next]_vars
      PROVE  [((pc' = "approval" /\ pc # "approval") \/ effects' # effects)
                 => ToolNow \notin denials]_vars
  <2> SUFFICES ASSUME (pc' = "approval" /\ pc # "approval") \/ effects' # effects
               PROVE  pc = "running"
      BY <1>3 DEF AgentInv, PolicyInv
  <2> QED
      BY <1>3 DEF Next, TurnStep, vars, CancelRequest, DeadlinePasses, StartCancelled, Start, ProviderNext,
         ProviderAnswers, ProviderFails, ContextOverflow, ToolStopped, ToolRefused, ToolCached,
         ToolInvoke, ToolReturns, ApprovalNeeded, Approved, Declined, ApprovalFails, Finalize, Fail,
         ToolFinish, NextCall, doneVars
<1> QED
    BY <1>1, <1>2, <1>3, PTL DEF Spec, DeclinedStaysDeclined

(* Where no prompt was waited for, a tool is invoked only after a check of  *)
(* the token and the deadline that no other step comes between              *)
(* (turn_check_continue in execute_tool_calls and agent_async_tool_next).   *)
THEOREM NoUnaskedToolAfterCancelHolds == Spec => NoUnaskedToolAfterCancel
<1>1. ASSUME [Next]_vars
      PROVE  [(pc' = "running" /\ pc \notin {"running", "approval"}) => ~cancel /\ ~expired]_vars
  <2> SUFFICES ASSUME pc' = "running", pc \notin {"running", "approval"}
               PROVE  ~cancel /\ ~expired
      OBVIOUS
  <2>1. ToolInvoke
      BY <1>1 DEF Next, TurnStep, vars, CancelRequest, DeadlinePasses, StartCancelled, Start, ProviderNext,
         ProviderAnswers, ProviderFails, ContextOverflow, ToolStopped, ToolRefused, ToolCached,
         ToolReturns, ApprovalNeeded, Approved, Declined, ApprovalFails, Finalize, Fail,
         ToolFinish, NextCall, doneVars
  <2> QED
      BY <2>1 DEF ToolInvoke, CheckContinue
<1> QED
    BY <1>1, PTL DEF Spec, NoUnaskedToolAfterCancel

-----------------------------------------------------------------------------
(* The end of a turn, and what a synchronous provider loop repeats.  Three  *)
(* invariants on top of AgentInv: the types; nothing is reported before the *)
(* turn is done; and the success cache holds every call that succeeded in   *)
(* the loop, so that a call that is running or being asked about is not in  *)
(* it, nor is an attachment of its tool.                                    *)

Reports == Statuses \cup {"completed"}

ReportInv ==
    /\ pc # "done" => events = <<>> /\ observed = <<>>
    /\ pc = "start" => providerCalls = 0
    /\ ReportedOnce

SuccessInv ==
    mode = "sync" =>
        /\ \A c \in Calls : okInLoop[c] > 0 => \E i \in DOMAIN successes : successes[i] = c
        /\ NoRepeatedSuccess
        /\ pc \in {"running", "approval"} => CacheHits = {}

EndInv == TypeOK /\ ReportInv /\ SuccessInv

LEMMA CheckContinueStatus == CheckContinue \in Statuses
    BY DEF CheckContinue, Statuses

(* One terminal event of each kind, of the status the turn ends with. *)
LEMMA FailReports ==
    ASSUME TypeOK, ReportInv, pc # "done", NEW status \in Statuses \ {"ok"},
           NEW rs \in [Calls -> Nat], Fail(status, rs)
    PROVE  /\ ReportInv' /\ pc' = "done"
           /\ events' \in Seq(Reports) /\ observed' \in Seq(Reports) /\ result' \in Statuses
           /\ delivered' \in [Calls -> Nat]
           /\ UNCHANGED <<appended, persisted>>
<1>1. /\ pc' = "done" /\ result' = status
      /\ events' = <<status>> /\ observed' = <<status>>
      /\ UNCHANGED <<appended, persisted>>
    BY DEF Fail, ReportInv
<1>2. NoCalls \in [Calls -> Nat]
    BY DEF NoCalls
<1>3. delivered' \in [Calls -> Nat]
    BY <1>2 DEF Fail
<1>4. <<status>> \in Seq(Reports)
    BY DEF Reports
<1>5. <<status>> # <<>> /\ DOMAIN <<status>> = {1} /\ <<status>>[1] = status
    OBVIOUS
<1>6. ReportedOnce'
    BY <1>1, <1>5 DEF ReportedOnce
<1> QED
    BY <1>1, <1>3, <1>4, <1>6 DEF ReportInv

(* What a failed turn leaves of the invariant: the cache no longer counts. *)
LEMMA FailEnds ==
    ASSUME EndInv, pc # "done", NEW status \in Statuses \ {"ok"}, Fail(status, receipts),
           UNCHANGED <<setup, cancel, expired, iterations, providerCalls, retried, calls, index,
                       loopVars, receipts, effects, okInLoop, approved>>,
           old' \in 0..setup.history
    PROVE  EndInv'
<1>1. /\ ReportInv' /\ pc' = "done"
      /\ events' \in Seq(Reports) /\ observed' \in Seq(Reports) /\ result' \in Statuses
      /\ delivered' \in [Calls -> Nat]
      /\ UNCHANGED <<appended, persisted>>
    BY FailReports DEF EndInv, TypeOK
<1>2. TypeOK'
    BY <1>1 DEF EndInv, TypeOK, Reports, loopVars
<1>3. SuccessInv'
    BY <1>1 DEF EndInv, SuccessInv, NoRepeatedSuccess, mode, loopVars
<1> QED
    BY <1>1, <1>2, <1>3 DEF EndInv

(* NextCall stays within the bound on the calls of a response. *)
LEMMA NextCallBound ==
    ASSUME CoreType, TypeOK, pc \in {"tool", "running", "approval"}, NextCall
    PROVE  /\ calls' \in Seq(Calls) /\ Len(calls') <= MaxCalls /\ index' \in 1..MaxCalls
           /\ pc' \in {"tool", "provider"}
<1>1. CASE index < Len(calls)
    BY <1>1, AgentAssumption DEF NextCall, TypeOK
<1>2. CASE ~(index < Len(calls))
  <2>1. <<>> \in Seq(Calls) /\ Len(<<>>) = 0
      OBVIOUS
  <2> QED
      BY <1>2, <2>1, AgentAssumption DEF NextCall
<1> QED
    BY <1>1, <1>2

(* The bookkeeping after a call, for the types and the reports. *)
LEMMA ToolFinishEnds ==
    ASSUME AgentInv, EndInv, pc \in {"tool", "running", "approval"}, NEW outcome, ToolFinish(outcome),
           UNCHANGED <<setup, cancel, expired, countVars>>,
           denials' \subseteq Tools, grants' \subseteq Calls, approved' \subseteq Calls,
           successes' \in Seq(Calls), replays' \in [Calls -> Nat],
           effects' \in [Calls -> Nat], okInLoop' \in [Calls -> Nat]
    PROVE  /\ TypeOK' /\ ReportInv'
           /\ pc' \in {"done", "tool", "provider"}
<1> DEFINE rs == IF outcome \in Effective THEN [receipts EXCEPT ![Call] = @ + 1] ELSE receipts
<1>1. Call \in Calls /\ ToolNow \in Tools /\ receipts \in [Calls -> Nat]
    BY CallType DEF AgentInv, EndInv, TypeOK, ToolNow, Tools
<1>2. receipts' = rs /\ rs \in [Calls -> Nat]
  <2>1. receipts' = rs
      BY DEF ToolFinish
  <2>2. rs \in [Calls -> Nat]
      BY <1>1
  <2> QED
      BY <2>1, <2>2
<1>3. failures' \subseteq Tools
    BY <1>1 DEF ToolFinish, EndInv, TypeOK
<1>4. CASE outcome \in {"cancelled", "approval"}
  <2>1. Fail("cancelled", rs) /\ UNCHANGED callVars /\ "cancelled" \in Statuses \ {"ok"}
      BY <1>4 DEF ToolFinish, Statuses
  <2> HIDE DEF rs
  <2>2. /\ ReportInv' /\ pc' = "done"
        /\ events' \in Seq(Reports) /\ observed' \in Seq(Reports) /\ result' \in Statuses
        /\ delivered' \in [Calls -> Nat]
        /\ UNCHANGED <<appended, persisted>>
      BY <1>2, <2>1, FailReports DEF EndInv
  <2>3. TypeOK'
      BY <1>2, <1>3, <2>1, <2>2 DEF EndInv, TypeOK, Reports, callVars, countVars
  <2> QED
      BY <2>2, <2>3
<1>5. CASE outcome \notin {"cancelled", "approval"}
  <2>1. NextCall /\ UNCHANGED endVars
      BY <1>5 DEF ToolFinish
  <2> HIDE DEF rs
  <2>2. /\ calls' \in Seq(Calls) /\ Len(calls') <= MaxCalls /\ index' \in 1..MaxCalls
        /\ pc' \in {"tool", "provider"}
      BY <2>1, NextCallBound DEF AgentInv, EndInv
  <2>3. TypeOK'
      BY <1>2, <1>3, <2>1, <2>2 DEF EndInv, TypeOK, endVars, countVars
  <2>4. ReportInv'
      BY <2>1, <2>2 DEF EndInv, ReportInv, ReportedOnce, endVars
  <2> QED
      BY <2>2, <2>3, <2>4
<1> QED
    BY <1>4, <1>5

(* The cache and the count of successes are left alone, and no tool is      *)
(* running afterwards that was not before.                                  *)
LEMMA SuccessesKept ==
    ASSUME SuccessInv, UNCHANGED <<setup, successes, okInLoop>>,
           pc' \in {"running", "approval"} => pc \in {"running", "approval"} /\ UNCHANGED <<calls, index>>
    PROVE  SuccessInv'
<1>1. mode' = mode
    BY DEF mode
<1>2. NoRepeatedSuccess' <=> NoRepeatedSuccess
    BY <1>1 DEF NoRepeatedSuccess
<1>3. pc' \in {"running", "approval"} => CacheHits' = CacheHits
    BY DEF CacheHits, ExactHits, AttachmentHits, SameCall, SameAttachment, ToolNow, Call
<1> QED
    BY <1>1, <1>2, <1>3 DEF SuccessInv

(* A call that succeeds was not in the cache, nor was an attachment of its  *)
(* tool, and enters it.                                                     *)
LEMMA SuccessAdds ==
    ASSUME TypeOK, SuccessInv, pc = "running", Call \in Calls, setup' = setup,
           okInLoop' = [okInLoop EXCEPT ![Call] = @ + 1],
           successes' = IF mode = "sync" /\ ExactHits = {} THEN Append(successes, Call) ELSE successes,
           pc' \notin {"running", "approval"}
    PROVE  SuccessInv'
<1> SUFFICES ASSUME mode = "sync" PROVE SuccessInv'
    BY DEF SuccessInv, mode
<1>1. mode' = mode /\ successes \in Seq(Calls) /\ okInLoop \in [Calls -> Nat]
    BY DEF mode, TypeOK
<1>2. ExactHits = {} /\ AttachmentHits = {}
    BY DEF SuccessInv, CacheHits
<1>3. \A d \in Calls : okInLoop[d] > 0 => d # Call /\ ~(ToolOf[d] = ToolNow /\ ToolNow \in Attaching)
    BY <1>2 DEF SuccessInv, ExactHits, AttachmentHits, SameCall, SameAttachment
<1>4. \A d \in Calls : okInLoop'[d] = IF d = Call THEN okInLoop[d] + 1 ELSE okInLoop[d]
    BY <1>1
<1>5. okInLoop[Call] = 0
    BY <1>1, <1>3
<1>6. \A c \in Calls : okInLoop[c] \in Nat /\ okInLoop[c] <= 1
    BY <1>1 DEF SuccessInv, NoRepeatedSuccess
<1>7. \A c \in Calls : okInLoop'[c] <= 1
    BY <1>4, <1>5, <1>6
<1>8. ASSUME NEW c \in Calls, NEW d \in Calls, c # d, ToolOf[c] = ToolOf[d], ToolOf[c] \in Attaching
      PROVE  okInLoop'[c] + okInLoop'[d] <= 1
  <2>1. CASE c = Call
    <3>1. okInLoop[d] = 0
        BY <1>3, <1>6, <1>8, <2>1 DEF ToolNow
    <3> QED
        BY <1>4, <1>5, <1>8, <2>1, <3>1
  <2>2. CASE d = Call
    <3>1. okInLoop[c] = 0
        BY <1>3, <1>6, <1>8, <2>2 DEF ToolNow
    <3> QED
        BY <1>4, <1>5, <1>8, <2>2, <3>1
  <2>3. CASE c # Call /\ d # Call
    <3>1. okInLoop[c] + okInLoop[d] <= 1
        BY <1>8 DEF SuccessInv, NoRepeatedSuccess
    <3> QED
        BY <1>4, <2>3, <3>1
  <2> QED
      BY <2>1, <2>2, <2>3
<1>9. NoRepeatedSuccess'
    BY <1>7, <1>8 DEF NoRepeatedSuccess
<1>10. /\ successes' = Append(successes, Call) /\ Len(successes) \in Nat
       /\ DOMAIN successes = 1..Len(successes)
       /\ DOMAIN successes' = 1..(Len(successes) + 1)
       /\ successes'[Len(successes) + 1] = Call
       /\ \A i \in 1..Len(successes) : successes'[i] = successes[i]
    BY <1>1, <1>2
<1>11. ASSUME NEW c \in Calls, okInLoop'[c] > 0
       PROVE  \E i \in DOMAIN successes' : successes'[i] = c
  <2>1. CASE c = Call
      BY <1>10, <2>1
  <2>2. CASE c # Call
    <3>1. PICK i \in DOMAIN successes : successes[i] = c
        BY <1>4, <1>11, <2>2 DEF SuccessInv
    <3> QED
        BY <1>10, <3>1
  <2> QED
      BY <2>1, <2>2
<1> QED
    BY <1>1, <1>9, <1>11 DEF SuccessInv

(* A step that ends nothing and runs no tool. *)
LEMMA MoveEnds ==
    ASSUME EndInv, TypeOK', pc # "done", pc' # "done", pc' \notin {"start", "running", "approval"},
           UNCHANGED <<setup, endVars, successes, okInLoop>>
    PROVE  EndInv'
<1>1. ReportInv'
    BY DEF EndInv, ReportInv, ReportedOnce, endVars
<1>2. SuccessInv'
    BY SuccessesKept DEF EndInv
<1> QED
    BY <1>1, <1>2 DEF EndInv

LEMMA EndInit == ASSUME Init PROVE EndInv
<1> USE DEF Init
<1>1. NoCalls \in [Calls -> Nat] /\ \A c \in Calls : NoCalls[c] = 0
    BY DEF NoCalls
<1>2. setup \in Setups /\ IsSetup(setup)
    BY AgentAssumption
<1>3. old \in 0..setup.history
    BY <1>2 DEF IsSetup
<1>4. /\ calls \in Seq(Calls) /\ Len(calls) <= MaxCalls /\ index \in 1..MaxCalls
      /\ successes \in Seq(Calls)
      /\ iterations \in 0..MaxIterations /\ providerCalls \in Nat
  <2>1. <<>> \in Seq(Calls) /\ Len(<<>>) = 0
      OBVIOUS
  <2> QED
      BY <2>1, AgentAssumption
<1>5. events \in Seq(Reports) /\ observed \in Seq(Reports) /\ result \in Statuses
    BY DEF Statuses
<1>6. /\ effects \in [Calls -> Nat] /\ okInLoop \in [Calls -> Nat] /\ receipts \in [Calls -> Nat]
      /\ delivered \in [Calls -> Nat] /\ replays \in [Calls -> Nat]
    BY <1>1
<1>7. cancel \in BOOLEAN /\ expired \in BOOLEAN /\ retried \in BOOLEAN /\ appended \in BOOLEAN
      /\ persisted \in BOOLEAN
    BY Zenon
<1>8. TypeOK
    BY <1>2, <1>3, <1>4, <1>5, <1>6, <1>7 DEF TypeOK, Reports
<1>9. ReportInv
    BY DEF ReportInv, ReportedOnce
<1>10. SuccessInv
    BY <1>1 DEF SuccessInv, NoRepeatedSuccess
<1> QED
    BY <1>8, <1>9, <1>10 DEF EndInv

(* Every step keeps it: one case per action. *)
LEMMA EndStep == ASSUME AgentInv, EndInv, [Next]_vars PROVE EndInv'
<1> USE DEF countVars, callVars, loopVars, doneVars
<1>0. /\ old \in 0..setup.history /\ CheckContinue \in Statuses
      /\ {"error", "cancelled"} \subseteq Statuses \ {"ok"}
      /\ IsSetup(setup)
    BY CheckContinueStatus, AgentAssumption DEF EndInv, TypeOK, Statuses
<1>1. CASE CancelRequest \/ DeadlinePasses \/ UNCHANGED vars
  <2>1. /\ UNCHANGED <<setup, pc, countVars, callVars, loopVars, receipts, endVars, doneVars>>
        /\ cancel' \in BOOLEAN /\ expired' \in BOOLEAN
      BY <1>1 DEF CancelRequest, DeadlinePasses, vars, EndInv, TypeOK
  <2>2. TypeOK'
      BY <2>1 DEF EndInv, TypeOK, endVars
  <2>3. ReportInv'
      BY <2>1 DEF EndInv, ReportInv, ReportedOnce, endVars, mode
  <2>4. SuccessInv'
      BY <2>1, SuccessesKept DEF EndInv
  <2> QED
      BY <2>2, <2>3, <2>4 DEF EndInv
<1>2. CASE StartCancelled
  <2>1. /\ pc = "start" /\ pc' = "done" /\ result' = "cancelled"
        /\ UNCHANGED <<appended, persisted, delivered, setup, cancel, expired, countVars, callVars,
                       loopVars, receipts, doneVars>>
      BY <1>2 DEF StartCancelled
  <2>2. events = <<>> /\ observed = <<>> /\ providerCalls = 0
      BY <2>1 DEF EndInv, ReportInv
  <2>3. \/ /\ mode = "sync" /\ events' = <<"cancelled">> /\ observed' = <<>>
        \/ /\ events' = <<"cancelled", "cancelled">> /\ observed' = <<"cancelled">>
      BY <1>2, <2>2 DEF StartCancelled
  <2>4. events' \in Seq(Reports) /\ observed' \in Seq(Reports) /\ result' \in Statuses
    <3>1. "cancelled" \in Reports /\ "cancelled" \in Statuses
        BY DEF Reports, Statuses
    <3>2. <<>> \in Seq(Reports) /\ <<"cancelled">> \in Seq(Reports)
          /\ <<"cancelled", "cancelled">> \in Seq(Reports)
        BY <3>1
    <3> QED
        BY <2>1, <2>3, <3>1, <3>2
  <2>5. TypeOK'
      BY <2>1, <2>4 DEF EndInv, TypeOK, Reports
  <2>6. ReportedOnce'
      BY <2>1, <2>2, <2>3 DEF ReportedOnce, mode
  <2>7. SuccessInv'
      BY <2>1, SuccessesKept DEF EndInv
  <2> QED
      BY <2>1, <2>5, <2>6, <2>7 DEF EndInv, ReportInv
<1>3. CASE Start
  <2>1. /\ pc = "start"
        /\ UNCHANGED <<setup, cancel, expired, iterations, providerCalls, retried, callVars, loopVars,
                       receipts, doneVars>>
      BY <1>3 DEF Start
  <2>2. CASE UNCHANGED old /\ \E status \in {"error", CheckContinue} : status # "ok" /\ Fail(status, receipts)
      BY <1>0, <2>1, <2>2, FailEnds
  <2>3. CASE pc' = "provider" /\ old' \in 0..old /\ UNCHANGED endVars
    <3>1. old' \in 0..setup.history
        BY <1>0, <2>3 DEF IsSetup
    <3>2. TypeOK'
        BY <2>1, <2>3, <3>1 DEF EndInv, TypeOK, endVars
    <3> QED
        BY <2>1, <2>3, <3>2, MoveEnds
  <2> QED
      BY <1>3, <2>2, <2>3 DEF Start
<1>4. CASE ProviderNext
  <2>1. /\ pc = "provider"
        /\ UNCHANGED <<setup, cancel, expired, old, retried, callVars, loopVars, receipts, doneVars>>
      BY <1>4 DEF ProviderNext
  <2>2. CASE /\ \E status \in {"cancelled", CheckContinue} : status # "ok" /\ Fail(status, receipts)
             /\ UNCHANGED <<iterations, providerCalls>>
      BY <1>0, <2>1, <2>2, FailEnds
  <2>3. CASE /\ iterations < MaxIterations /\ iterations' = iterations + 1
             /\ providerCalls' = providerCalls + 1 /\ pc' = "response" /\ UNCHANGED endVars
    <3>1. iterations' \in 0..MaxIterations /\ providerCalls' \in Nat
        BY <2>3, AgentAssumption DEF EndInv, TypeOK
    <3>2. TypeOK'
        BY <2>1, <2>3, <3>1 DEF EndInv, TypeOK, endVars
    <3> QED
        BY <2>1, <2>3, <3>2, MoveEnds
  <2> QED
      BY <1>4, <2>2, <2>3 DEF ProviderNext
<1>5. CASE ProviderAnswers
  <2>1. /\ pc = "response"
        /\ UNCHANGED <<setup, cancel, expired, old, iterations, providerCalls, retried, loopVars,
                       receipts, doneVars>>
      BY <1>5 DEF ProviderAnswers
  <2>2. CASE Fail("cancelled", receipts) /\ UNCHANGED callVars
      BY <1>0, <2>1, <2>2, FailEnds
  <2>3. ASSUME NEW n \in 0..MaxCalls, NEW cs \in [1..n -> Calls],
               calls' = cs, index' = 1, pc' = IF n = 0 THEN "finalize" ELSE "tool", UNCHANGED endVars
        PROVE  EndInv'
    <3>1. cs \in Seq(Calls) /\ Len(cs) = n
        BY AgentAssumption, <2>3
    <3>2. index' \in 1..MaxCalls /\ Len(calls') <= MaxCalls /\ calls' \in Seq(Calls)
        BY AgentAssumption, <2>3, <3>1
    <3>3. pc' \in {"finalize", "tool"}
        BY <2>3
    <3>4. TypeOK'
        BY <2>1, <2>3, <3>2, <3>3 DEF EndInv, TypeOK, endVars
    <3> QED
        BY <2>1, <2>3, <3>3, <3>4, MoveEnds
  <2> QED
      BY <1>5, <2>2, <2>3 DEF ProviderAnswers
<1>6. CASE ProviderFails
    BY <1>0, <1>6, FailEnds DEF ProviderFails
<1>7. CASE ContextOverflow
  <2>1. pc = "response" /\ UNCHANGED <<setup, cancel, expired, providerCalls, callVars, receipts,
                                       effects, approved>>
      BY <1>7 DEF ContextOverflow
  <2>2. CASE Fail("error", receipts) /\ UNCHANGED <<old, iterations, retried, loopVars, okInLoop>>
      BY <1>0, <2>1, <2>2, FailEnds
  <2>3. CASE /\ retried' = TRUE /\ old' \in 0..old /\ iterations' = 0
             /\ denials' = {} /\ grants' = {} /\ successes' = <<>> /\ replays' = NoCalls
             /\ failures' = IF mode = "sync" THEN {} ELSE failures
             /\ okInLoop' = NoCalls /\ pc' = "provider" /\ UNCHANGED endVars
    <3>1. old' \in 0..setup.history
        BY <1>0, <2>3 DEF IsSetup
    <3>2. NoCalls \in [Calls -> Nat] /\ \A c \in Calls : NoCalls[c] = 0
        BY DEF NoCalls
    <3>3. successes' \in Seq(Calls) /\ iterations' \in 0..MaxIterations /\ failures' \subseteq Tools
        BY <2>3, AgentAssumption DEF EndInv, TypeOK
    <3>4. TypeOK'
        BY <2>1, <2>3, <3>1, <3>2, <3>3 DEF EndInv, TypeOK, endVars
    <3>5. ReportInv'
        BY <2>1, <2>3 DEF EndInv, ReportInv, ReportedOnce, endVars
    <3>6. SuccessInv'
        BY <2>3, <3>2 DEF SuccessInv, NoRepeatedSuccess
    <3> QED
        BY <3>4, <3>5, <3>6 DEF EndInv
  <2> QED
      BY <1>7, <2>2, <2>3 DEF ContextOverflow
<1>8. CASE ToolStopped
    BY <1>0, <1>8, FailEnds DEF ToolStopped
<1>9. CASE ToolRefused
  <2>1. /\ pc = "tool" /\ ToolFinish(Precheck)
        /\ UNCHANGED <<setup, cancel, expired, countVars, denials, grants, successes, replays, doneVars>>
      BY <1>9 DEF ToolRefused
  <2>2. TypeOK' /\ ReportInv' /\ pc' \in {"done", "tool", "provider"}
      BY <2>1, ToolFinishEnds DEF EndInv, TypeOK
  <2> QED
      BY <2>1, <2>2, SuccessesKept DEF EndInv
<1>10. CASE ToolCached
  <2> DEFINE entry == CacheEntry
  <2>1. /\ pc = "tool" /\ Precheck = "cached"
        /\ UNCHANGED <<setup, cancel, expired, countVars, denials, grants, successes, failures,
                       endVars, doneVars>>
        /\ receipts' = [receipts EXCEPT ![Call] = @ + 1]
        /\ replays' = [replays EXCEPT ![entry] = @ + 1]
        /\ (pc' = "finalize" /\ calls' = <<>> /\ index' = 1) \/ NextCall
      BY <1>10 DEF ToolCached
  <2>2. receipts' \in [Calls -> Nat]
      BY <2>1, CallType DEF AgentInv, EndInv, TypeOK
  <2>3. replays' \in [Calls -> Nat]
    <3> HIDE DEF entry
    <3>1. replays \in [Calls -> Nat]
        BY DEF EndInv, TypeOK
    <3>2. CASE entry \in Calls
        BY <2>1, <3>1, <3>2
    <3>3. CASE entry \notin Calls
        BY <2>1, <3>1, <3>3
    <3> QED
        BY <3>2, <3>3
  <2>4. /\ calls' \in Seq(Calls) /\ Len(calls') <= MaxCalls /\ index' \in 1..MaxCalls
        /\ pc' \in {"tool", "provider", "finalize"}
    <3>1. CASE pc' = "finalize" /\ calls' = <<>> /\ index' = 1
      <4>1. <<>> \in Seq(Calls) /\ Len(<<>>) = 0
          OBVIOUS
      <4> QED
          BY <3>1, <4>1, AgentAssumption
    <3>2. CASE NextCall
        BY <2>1, <3>2, NextCallBound DEF AgentInv, EndInv
    <3> QED
        BY <2>1, <3>1, <3>2
  <2>5. TypeOK'
      BY <2>1, <2>2, <2>3, <2>4 DEF EndInv, TypeOK, endVars
  <2> QED
      BY <2>1, <2>4, <2>5, MoveEnds
<1>11. CASE ToolInvoke
  <2>1. /\ pc = "tool" /\ pc' = "running" /\ Precheck = "invoke"
        /\ UNCHANGED <<setup, cancel, expired, countVars, callVars, loopVars, receipts, endVars, doneVars>>
      BY <1>11 DEF ToolInvoke
  <2>2. TypeOK'
      BY <2>1 DEF EndInv, TypeOK, endVars
  <2>3. ReportInv'
      BY <2>1 DEF EndInv, ReportInv, ReportedOnce, endVars
  <2>4. mode = "sync" => CacheHits = {}
      BY <2>1 DEF Precheck
  <2>5. CacheHits' = CacheHits /\ mode' = mode /\ (NoRepeatedSuccess' <=> NoRepeatedSuccess)
      BY <2>1 DEF CacheHits, ExactHits, AttachmentHits, SameCall, SameAttachment, ToolNow, Call, mode,
         NoRepeatedSuccess
  <2>6. SuccessInv'
      BY <2>1, <2>4, <2>5 DEF EndInv, SuccessInv
  <2> QED
      BY <2>2, <2>3, <2>6 DEF EndInv
<1>12. CASE ToolReturns
  <2>1. /\ pc = "running"
        /\ UNCHANGED <<setup, cancel, expired, countVars, denials, grants, replays, approved>>
      BY <1>12 DEF ToolReturns
  <2>2. PICK outcome \in Effective \cup {"refused", "terminal"} :
          /\ ToolFinish(outcome)
          /\ effects' = IF outcome \in Effective THEN [effects EXCEPT ![Call] = @ + 1] ELSE effects
          /\ okInLoop' = IF outcome = "ok" THEN [okInLoop EXCEPT ![Call] = @ + 1] ELSE okInLoop
          /\ successes' = IF outcome = "ok" /\ mode = "sync" /\ ExactHits = {}
                          THEN Append(successes, Call) ELSE successes
      BY <1>12 DEF ToolReturns
  <2>3. /\ Call \in Calls /\ effects \in [Calls -> Nat] /\ okInLoop \in [Calls -> Nat]
        /\ successes \in Seq(Calls)
      BY <2>1, CallType DEF AgentInv, EndInv, TypeOK
  <2>4. effects' \in [Calls -> Nat] /\ okInLoop' \in [Calls -> Nat]
      BY <2>2, <2>3
  <2>5. successes' \in Seq(Calls)
      BY <2>2, <2>3
  <2>6. TypeOK' /\ ReportInv' /\ pc' \in {"done", "tool", "provider"}
      BY <2>1, <2>2, <2>4, <2>5, ToolFinishEnds DEF EndInv, TypeOK
  <2>7. CASE outcome = "ok"
      BY <2>1, <2>2, <2>3, <2>6, <2>7, SuccessAdds DEF EndInv
  <2>8. CASE outcome # "ok"
      BY <2>1, <2>2, <2>6, <2>8, SuccessesKept DEF EndInv
  <2> QED
      BY <2>7, <2>8
<1>13. CASE ApprovalNeeded
  <2>1. /\ pc = "running"
        /\ UNCHANGED <<setup, cancel, expired, countVars, denials, grants, successes, replays, doneVars>>
      BY <1>13 DEF ApprovalNeeded
  <2>2. CASE pc' = "approval" /\ UNCHANGED <<callVars, receipts, failures, endVars>>
    <3>1. TypeOK'
        BY <2>1, <2>2 DEF EndInv, TypeOK, endVars
    <3>2. ReportInv'
        BY <2>1, <2>2 DEF EndInv, ReportInv, ReportedOnce, endVars
    <3> QED
        BY <2>1, <2>2, <3>1, <3>2, SuccessesKept DEF EndInv
  <2>3. CASE ToolFinish("approval")
    <3>1. TypeOK' /\ ReportInv' /\ pc' \in {"done", "tool", "provider"}
        BY <2>1, <2>3, ToolFinishEnds DEF EndInv, TypeOK
    <3> QED
        BY <2>1, <3>1, SuccessesKept DEF EndInv
  <2> QED
      BY <1>13, <2>2, <2>3 DEF ApprovalNeeded
<1>14. CASE Approved
  <2>1. /\ pc = "approval" /\ pc' = "running" /\ grants' = grants \cup {Call}
        /\ approved' = approved \cup {Call}
        /\ UNCHANGED <<setup, cancel, expired, countVars, callVars, denials, successes, replays, failures,
                       receipts, endVars, effects, okInLoop>>
      BY <1>14 DEF Approved
  <2>2. Call \in Calls
      BY <2>1, CallType DEF AgentInv
  <2>3. TypeOK'
      BY <2>1, <2>2 DEF EndInv, TypeOK, endVars
  <2>4. ReportInv'
      BY <2>1 DEF EndInv, ReportInv, ReportedOnce, endVars
  <2> QED
      BY <2>1, <2>3, <2>4, SuccessesKept DEF EndInv
<1>15. CASE Declined
  <2>1. /\ pc = "approval" /\ denials' = denials \cup {ToolNow} /\ ToolFinish("refused")
        /\ UNCHANGED <<setup, cancel, expired, countVars, grants, successes, replays, doneVars>>
      BY <1>15 DEF Declined
  <2>2. denials' \subseteq Tools
      BY <2>1, CallType DEF AgentInv, EndInv, TypeOK, ToolNow, Tools
  <2>3. TypeOK' /\ ReportInv' /\ pc' \in {"done", "tool", "provider"}
      BY <2>1, <2>2, ToolFinishEnds DEF EndInv, TypeOK
  <2> QED
      BY <2>1, <2>3, SuccessesKept DEF EndInv
<1>16. CASE ApprovalFails
  <2>1. /\ pc = "approval" /\ \E outcome \in {"error", "cancelled", "terminal"} : ToolFinish(outcome)
        /\ UNCHANGED <<setup, cancel, expired, countVars, denials, grants, successes, replays, doneVars>>
      BY <1>16 DEF ApprovalFails
  <2>2. TypeOK' /\ ReportInv' /\ pc' \in {"done", "tool", "provider"}
      BY <2>1, ToolFinishEnds DEF EndInv, TypeOK
  <2> QED
      BY <2>1, <2>2, SuccessesKept DEF EndInv
<1>17. CASE Finalize
  <2>1. /\ pc = "finalize"
        /\ UNCHANGED <<setup, cancel, expired, countVars, callVars, loopVars, receipts, doneVars>>
      BY <1>17 DEF Finalize
  <2>2. CASE CheckContinue # "ok" /\ Fail(CheckContinue, receipts)
      BY <1>0, <2>1, <2>2, FailEnds
  <2>3. CASE CheckContinue = "ok"
    <3>1. events = <<>> /\ observed = <<>> /\ NoCalls \in [Calls -> Nat]
        BY <2>1 DEF EndInv, ReportInv, NoCalls
    <3>2. \/ /\ result' = "ok" /\ events' = <<"completed">> /\ observed' = <<"completed">>
          \/ /\ result' = "error" /\ events' = <<"error">> /\ observed' = <<"error">>
        BY <1>17, <2>3, <3>1 DEF Finalize
    <3>3. pc' = "done" /\ appended' = TRUE /\ delivered' \in [Calls -> Nat]
        BY <1>17, <2>3, <3>1 DEF Finalize, Fail, EndInv, TypeOK
    <3>4. persisted' \in BOOLEAN
        BY <1>0, <1>17, <2>3 DEF Finalize, Fail, IsSetup, MemoryOn
    <3>5. events' \in Seq(Reports) /\ observed' \in Seq(Reports) /\ result' \in Statuses
      <4>1. {"completed", "error"} \subseteq Reports /\ {"ok", "error"} \subseteq Statuses
          BY DEF Reports, Statuses
      <4>2. <<"completed">> \in Seq(Reports) /\ <<"error">> \in Seq(Reports)
          BY <4>1
      <4> QED
          BY <3>2, <4>1, <4>2
    <3>6. TypeOK'
        BY <2>1, <3>3, <3>4, <3>5 DEF EndInv, TypeOK, Reports
    <3>7. ReportInv'
        BY <3>2, <3>3 DEF ReportInv, ReportedOnce
    <3> QED
        BY <2>1, <3>3, <3>6, <3>7, SuccessesKept DEF EndInv
  <2> QED
      BY <1>17, <2>2, <2>3 DEF Finalize
<1> QED
    BY <1>1, <1>2, <1>3, <1>4, <1>5, <1>6, <1>7, <1>8, <1>9, <1>10, <1>11, <1>12, <1>13, <1>14, <1>15,
       <1>16, <1>17 DEF Next, TurnStep

(* A turn of either kind reports its end exactly once and truly             *)
(* (emit_turn_event, agent_async_complete), and a synchronous provider loop *)
(* carries out a call with success at most once and gets at most one        *)
(* attachment from a tool (tool_success_cache_find), for any calls, tools,  *)
(* policies and limits.                                                     *)
THEOREM TurnReportedHolds == Spec => []TurnReported
<1>1. Init => AgentInv /\ EndInv
    BY AgentInit, EndInit
<1>2. AgentInv /\ EndInv /\ [Next]_vars => (AgentInv /\ EndInv)'
    BY AgentStep, EndStep
<1>3. EndInv => TurnReported
    BY DEF EndInv, ReportInv, SuccessInv, NoRepeatedSuccess, TurnReported
<1> QED
    BY <1>1, <1>2, <1>3, PTL DEF Spec

----------------------------------------------------------------------------
(***************************************************************************)
(* Cron jobs.                                                              *)
(***************************************************************************)

(* A set of numbers has a least one.                                       *)
LEMMA LowestOf ==
    ASSUME NEW T, T \subseteq Nat, T # {}
    PROVE  \E m \in T : \A y \in T : m <= y
<1>1. \E m \in T : \A y \in T : ~ (<<y, m>> \in OpToRel(<, Nat))
    BY NatLessThanWellFounded, WFMin
<1>2. ASSUME NEW y \in T, NEW m \in T, ~ (<<y, m>> \in OpToRel(<, Nat)) PROVE m <= y
  <2>1. ~ (y < m)
      BY <1>2 DEF OpToRel
  <2> QED
      BY <2>1
<1> QED
    BY <1>1, <1>2

(* Induction up to a number, over the set of those for which a claim holds. *)
LEMMA UpTo ==
    ASSUME NEW N \in Nat, NEW G, 0 \in G, \A n \in 1..N : n - 1 \in G => n \in G
    PROVE  N \in G
<1> SUFFICES ASSUME N \notin G PROVE FALSE
    OBVIOUS
<1>1. PICK T : T = (0..N) \ G
    OBVIOUS
<1>2. T \subseteq Nat /\ T # {}
    BY <1>1
<1>3. PICK m \in T : \A y \in T : m <= y
    BY <1>2, LowestOf
<1>4. m \in 1..N /\ m - 1 \in 0..N /\ m \notin G
    BY <1>1, <1>3
<1>5. m - 1 \notin T
    BY <1>3, <1>4
<1> QED
    BY <1>1, <1>4, <1>5

(* The least slot that is due.                                             *)
LEMMA MinOf ==
    ASSUME NEW T, T \subseteq Nat, T # {}
    PROVE  Min(T) \in T /\ \A y \in T : Min(T) <= y
<1>1. \E m \in T : \A y \in T : m <= y
    BY LowestOf
<1> QED
    BY <1>1 DEF Min

(* A sequence, as one fact.                                                *)
ListOf(R, s) == s \in Seq(R)

(* What such a sequence has.                                               *)
LEMMA ListHas ==
    ASSUME NEW R, NEW s, ListOf(R, s)
    PROVE  Len(s) \in Nat /\ DOMAIN s = 1..Len(s) /\ \A i \in 1..Len(s) : s[i] \in R
BY DEF ListOf

(* One job to an id.                                                       *)
OneToAnId(s) == \A i, j \in DOMAIN s : s[i].id = s[j].id => i = j

(* sc_cron_job_store_put.                                                  *)
PutGives(R, s, job, p) ==
    /\ ListOf(R, p)
    /\ Find(s, job.id) = {} =>
          Len(p) = Len(s) + 1 /\ p[Len(s) + 1] = job /\ \A i \in 1..Len(s) : p[i] = s[i]
    /\ Find(s, job.id) # {} =>
          Len(p) = Len(s) /\ \A i \in 1..Len(s) : p[i] = IF s[i].id = job.id THEN job ELSE s[i]
    /\ OneToAnId(s) => OneToAnId(p)

(* It is appended, or replaces the one of its id.                          *)
LEMMA CronPutHolds ==
    ASSUME NEW R, NEW s, ListOf(R, s), NEW job \in R, NEW p, p = Put(s, job)
    PROVE  PutGives(R, s, job, p)
<1>1. DOMAIN s = 1..Len(s) /\ Len(s) \in Nat /\ \A i \in 1..Len(s) : s[i] \in R
    BY ListHas
<1>2. CASE Find(s, job.id) = {}
  <2>1. p = Append(s, job)
      BY <1>2 DEF Put
  <2>2. /\ ListOf(R, p) /\ Len(p) = Len(s) + 1 /\ p[Len(s) + 1] = job /\ \A i \in 1..Len(s) : p[i] = s[i]
        /\ DOMAIN p = 1..(Len(s) + 1)
      BY <2>1 DEF ListOf
  <2>3. \A i \in 1..Len(s) : s[i].id # job.id
      BY <1>1, <1>2 DEF Find
  <2>4. OneToAnId(s) => OneToAnId(p)
    <3> SUFFICES ASSUME OneToAnId(s), NEW i \in 1..(Len(s) + 1), NEW j \in 1..(Len(s) + 1), p[i].id = p[j].id PROVE i = j
        BY <2>2 DEF OneToAnId
    <3>1. CASE i \in 1..Len(s) /\ j \in 1..Len(s)
        BY <1>1, <2>2, <3>1 DEF OneToAnId
    <3>2. CASE i = Len(s) + 1 \/ j = Len(s) + 1
        BY <1>1, <2>2, <2>3, <3>2
    <3> QED
        BY <1>1, <3>1, <3>2
  <2> QED
      BY <1>2, <2>2, <2>4 DEF PutGives
<1>3. CASE Find(s, job.id) # {}
  <2>1. p = [i \in 1..Len(s) |-> IF s[i].id = job.id THEN job ELSE s[i]]
      BY <1>1, <1>3 DEF Put
  <2>2. \A i \in 1..Len(s) : p[i] = (IF s[i].id = job.id THEN job ELSE s[i]) /\ p[i] \in R
      BY <1>1, <2>1
  <2>3. ListOf(R, p) /\ Len(p) = Len(s) /\ DOMAIN p = 1..Len(s)
      BY <1>1, <2>1, <2>2 DEF ListOf
  <2>4. \A i \in 1..Len(s) : p[i].id = s[i].id
      BY <2>2
  <2>5. OneToAnId(s) => OneToAnId(p)
      BY <1>1, <2>3, <2>4 DEF OneToAnId
  <2> QED
      BY <1>3, <2>2, <2>3, <2>5 DEF PutGives
<1> QED
    BY <1>2, <1>3

(* sc_cron_job_store_remove.                                               *)
WithoutGives(R, s, id, w) ==
    /\ ListOf(R, w)
    /\ Find(s, id) = {} => w = s
    /\ Find(s, id) # {} => \E x \in 1..Len(s) :
          Len(w) = Len(s) - 1 /\ \A i \in 1..(Len(s) - 1) : w[i] = IF i < x THEN s[i] ELSE s[i + 1]
    /\ OneToAnId(s) => OneToAnId(w)

(* The jobs behind it move up.                                             *)
LEMMA WithoutHolds ==
    ASSUME NEW R, NEW s, ListOf(R, s), NEW id, NEW w, w = Without(s, id)
    PROVE  WithoutGives(R, s, id, w)
<1>1. DOMAIN s = 1..Len(s) /\ Len(s) \in Nat /\ \A i \in 1..Len(s) : s[i] \in R
    BY ListHas
<1>2. CASE Find(s, id) = {}
    BY <1>2 DEF Without, WithoutGives
<1>3. CASE Find(s, id) # {}
  <2>1. PICK x \in 1..Len(s) : w = RemoveAt(s, x)
    <3>1. PICK T : T = Find(s, id)
        OBVIOUS
    <3>2. T \subseteq 1..Len(s)
        BY <1>1, <3>1 DEF Find
    <3>3. T \subseteq Nat /\ T # {}
        BY <1>1, <1>3, <3>1, <3>2
    <3>4. Min(T) \in T
        BY <3>3, MinOf
    <3>5. w = RemoveAt(s, Min(T))
        BY <1>3, <3>1 DEF Without
    <3> QED
        BY <3>2, <3>4, <3>5
  <2>2. PICK a, b : a = SubSeq(s, 1, x - 1) /\ b = SubSeq(s, x + 1, Len(s)) /\ w = a \o b
      BY <2>1 DEF RemoveAt
  <2>3. ListOf(R, a) /\ Len(a) = x - 1 /\ \A i \in 1..(x - 1) : a[i] = s[i]
    <3>1. PICK m, n \in Int : m = 1 /\ n = x - 1
        BY <1>1
    <3>2. a = SubSeq(s, m, n)
        BY <2>2, <3>1
    <3>3. \A i \in m..n : s[i] \in R
        BY <1>1, <3>1
    <3>4. /\ ListOf(R, a) /\ Len(a) = IF m <= n THEN n - m + 1 ELSE 0
          /\ \A i \in 1..(n - m + 1) : a[i] = s[m + i - 1]
        BY <3>2, <3>3, SubSeqProperties DEF ListOf
    <3>5. /\ n - m + 1 = x - 1 /\ (IF m <= n THEN n - m + 1 ELSE 0) = x - 1
          /\ \A i \in 1..(x - 1) : m + i - 1 = i
        BY <1>1, <3>1
    <3> QED
        BY <3>4, <3>5
  <2>4. ListOf(R, b) /\ Len(b) = Len(s) - x /\ \A i \in 1..(Len(s) - x) : b[i] = s[x + i]
    <3>1. PICK m, n \in Int : m = x + 1 /\ n = Len(s)
      <4>1. Len(s) \in Nat
          BY <1>1
      <4>2. x + 1 \in Int /\ Len(s) \in Int
          BY <4>1
      <4> QED
          BY <4>2
    <3>2. b = SubSeq(s, m, n)
        BY <2>2, <3>1
    <3>3. \A i \in m..n : s[i] \in R
        BY <1>1, <3>1
    <3>4. /\ ListOf(R, b) /\ Len(b) = IF m <= n THEN n - m + 1 ELSE 0
          /\ \A i \in 1..(n - m + 1) : b[i] = s[m + i - 1]
        BY <3>2, <3>3, SubSeqProperties DEF ListOf
    <3>5. PICK l \in Nat : l = Len(s) /\ x \in 1..l
        BY <1>1
    <3>6. /\ n - m + 1 = l - x /\ (IF m <= n THEN n - m + 1 ELSE 0) = l - x
          /\ \A i \in 1..(l - x) : m + i - 1 = x + i
        BY <3>1, <3>5
    <3> QED
        BY <3>4, <3>5, <3>6
  <2>5. /\ ListOf(R, w) /\ Len(w) = Len(s) - 1 /\ DOMAIN w = 1..(Len(s) - 1)
        /\ \A i \in 1..(Len(s) - 1) : w[i] = IF i <= Len(a) THEN a[i] ELSE b[i - Len(a)]
    <3>1. PICK c : c = a \o b
        OBVIOUS
    <3>2. a \in Seq(R) /\ b \in Seq(R)
        BY <2>3, <2>4 DEF ListOf
    <3>3. /\ ListOf(R, c) /\ Len(c) = Len(a) + Len(b)
          /\ \A i \in 1..(Len(a) + Len(b)) : c[i] = IF i <= Len(a) THEN a[i] ELSE b[i - Len(a)]
        BY <3>1, <3>2, ConcatProperties DEF ListOf
    <3>4. Len(a) + Len(b) = Len(s) - 1
        BY <1>1, <2>3, <2>4
    <3>5. DOMAIN c = 1..Len(c)
        BY <3>3, ListHas
    <3> QED
        BY <2>2, <3>1, <3>3, <3>4, <3>5
  <2>6. ASSUME NEW i \in 1..(Len(s) - 1) PROVE w[i] = IF i < x THEN s[i] ELSE s[i + 1]
    <3>1. CASE i < x
        BY <2>3, <2>5, <3>1
    <3>2. CASE ~(i < x)
      <4>1. i - (x - 1) \in 1..(Len(s) - x) /\ x + (i - (x - 1)) = i + 1
          BY <1>1, <3>2
      <4>2. w[i] = b[i - (x - 1)]
          BY <2>3, <2>5, <3>2
      <4> QED
          BY <2>4, <3>2, <4>1, <4>2
    <3> QED
        BY <3>1, <3>2
  <2>7. OneToAnId(s) => OneToAnId(w)
    <3> SUFFICES ASSUME OneToAnId(s), NEW i \in 1..(Len(s) - 1), NEW j \in 1..(Len(s) - 1), w[i].id = w[j].id PROVE i = j
        BY <2>5 DEF OneToAnId
    <3>1. PICK k, l \in 1..Len(s) : /\ w[i] = s[k] /\ k = IF i < x THEN i ELSE i + 1
                                    /\ w[j] = s[l] /\ l = IF j < x THEN j ELSE j + 1
        BY <1>1, <2>6
    <3>2. k = l
        BY <1>1, <3>1 DEF OneToAnId
    <3> QED
        BY <3>1, <3>2
  <2> QED
      BY <1>3, <2>5, <2>6, <2>7 DEF WithoutGives
<1> QED
    BY <1>2, <1>3

(* The loop of cron_store_parse_body: the store after each line.           *)
LEMMA LoadRuns ==
    ASSUME NEW lines, Len(lines) \in Nat
    PROVE  \E g : /\ g[0] = <<>> /\ Load(lines) = g[Len(lines)]
                  /\ \A n \in 1..Len(lines) : g[n] = Put(g[n - 1], lines[n])
<1> DEFINE Is(m, g) == g = [n \in 0..m |-> IF n = 0 THEN <<>> ELSE Put(g[n - 1], lines[n])]
           G == {m \in 0..Len(lines) : \E g : Is(m, g)}
<1>1. 0 \in G
  <2>1. PICK g : g = [n \in 0..0 |-> <<>>]
      OBVIOUS
  <2>2. Is(0, g)
      BY <2>1
  <2> QED
      BY <2>2
<1>2. ASSUME NEW m \in 1..Len(lines), m - 1 \in G PROVE m \in G
  <2>1. PICK g : Is(m - 1, g)
      BY <1>2
  <2>2. PICK h : h = [n \in 0..m |-> IF n = m THEN Put(g[m - 1], lines[m]) ELSE g[n]]
      OBVIOUS
  <2>3. \A n \in 0..(m - 1) : h[n] = g[n]
      BY <2>2
  <2>4. ASSUME NEW n \in 0..m PROVE h[n] = IF n = 0 THEN <<>> ELSE Put(h[n - 1], lines[n])
    <3>1. CASE n = m
        BY <2>2, <2>3, <3>1
    <3>2. CASE n # m
      <4>1. n \in 0..(m - 1) /\ (n # 0 => n - 1 \in 0..(m - 1))
          BY <3>2
      <4>2. g[n] = IF n = 0 THEN <<>> ELSE Put(g[n - 1], lines[n])
          BY <2>1, <4>1
      <4> QED
          BY <2>3, <4>1, <4>2
    <3> QED
        BY <3>1, <3>2
  <2>5. Is(m, h)
      BY <2>2, <2>4
  <2>6. \E f : Is(m, f)
      BY <2>5
  <2> HIDE DEF Is
  <2> QED
      BY <2>6
<1>3. \E g : Is(Len(lines), g)
  <2>1. Len(lines) \in G
    <3> HIDE DEF G
    <3>1. PICK N \in Nat : N = Len(lines)
        OBVIOUS
    <3>2. \A n \in 1..N : n - 1 \in G => n \in G
        BY <1>2, <3>1
    <3>3. N \in G
        BY <1>1, <3>2, UpTo
    <3> QED
        BY <3>1, <3>3
  <2> QED
      BY <2>1
<1>4. PICK g : Is(Len(lines), g) /\ g = CHOOSE f : Is(Len(lines), f)
    BY <1>3
<1>5. Load(lines) = g[Len(lines)]
    BY <1>4 DEF Load
<1>6. g[0] = <<>> /\ \A n \in 1..Len(lines) : g[n] = Put(g[n - 1], lines[n])
    BY <1>4
<1> QED
    BY <1>5, <1>6

(* What the file gives: one job to an id.                                  *)
LEMMA LoadHolds ==
    ASSUME NEW lines, ListOf(Job, lines)
    PROVE  ListOf(Job, Load(lines)) /\ OneToAnId(Load(lines))
<1>1. Len(lines) \in Nat /\ \A i \in 1..Len(lines) : lines[i] \in Job
    BY ListHas
<1>2. PICK g : /\ g[0] = <<>> /\ Load(lines) = g[Len(lines)]
               /\ \A n \in 1..Len(lines) : g[n] = Put(g[n - 1], lines[n])
    BY <1>1, LoadRuns
<1> DEFINE G == {n \in 0..Len(lines) : ListOf(Job, g[n]) /\ OneToAnId(g[n])}
<1>3. 0 \in G
  <2>1. ListOf(Job, <<>>) /\ OneToAnId(<<>>)
      BY DEF OneToAnId, ListOf
  <2> QED
      BY <1>1, <1>2, <2>1
<1>4. ASSUME NEW m \in 1..Len(lines), m - 1 \in G PROVE m \in G
  <2>1. PICK s, job, t : s = g[m - 1] /\ job = lines[m] /\ t = g[m]
      OBVIOUS
  <2>2. ListOf(Job, s) /\ job \in Job /\ OneToAnId(s) /\ t = Put(s, job)
      BY <1>1, <1>2, <1>4, <2>1
  <2>3. PutGives(Job, s, job, t)
      BY <2>2, CronPutHolds
  <2>4. ListOf(Job, t) /\ OneToAnId(t)
      BY <2>2, <2>3 DEF PutGives
  <2> QED
      BY <2>1, <2>4
<1>5. Len(lines) \in G
  <2> HIDE DEF G
  <2>1. PICK N \in Nat : N = Len(lines)
      BY <1>1
  <2>2. \A n \in 1..N : n - 1 \in G => n \in G
      BY <1>4, <2>1
  <2>3. N \in G
      BY <1>3, <2>2, UpTo
  <2> QED
      BY <2>1, <2>3
<1> QED
    BY <1>2, <1>5

(* A file that a save wrote is read back as it was.                        *)
LEMMA LoadSame ==
    ASSUME NEW lines, ListOf(Job, lines), OneToAnId(lines)
    PROVE  Load(lines) = lines
<1>1. Len(lines) \in Nat /\ DOMAIN lines = 1..Len(lines) /\ \A i \in 1..Len(lines) : lines[i] \in Job
    BY ListHas
<1>2. PICK g : /\ g[0] = <<>> /\ Load(lines) = g[Len(lines)]
               /\ \A n \in 1..Len(lines) : g[n] = Put(g[n - 1], lines[n])
    BY <1>1, LoadRuns
<1> DEFINE Read(n) == ListOf(Job, g[n]) /\ Len(g[n]) = n /\ \A i \in 1..n : g[n][i] = lines[i]
           G == {n \in 0..Len(lines) : Read(n)}
<1>3. 0 \in G
  <2>1. ListOf(Job, <<>>) /\ Len(<<>>) = 0
      BY DEF ListOf
  <2> QED
      BY <1>1, <1>2, <2>1
<1>4. ASSUME NEW m \in 1..Len(lines), m - 1 \in G PROVE m \in G
  <2>1. PICK s, job, t : s = g[m - 1] /\ job = lines[m] /\ t = g[m]
      OBVIOUS
  <2>2. /\ ListOf(Job, s) /\ job \in Job /\ t = Put(s, job)
        /\ Len(s) = m - 1 /\ \A i \in 1..(m - 1) : s[i] = lines[i]
      BY <1>1, <1>2, <1>4, <2>1
  <2>3. Find(s, job.id) = {}
    <3>1. DOMAIN s = 1..(m - 1)
        BY <2>2, ListHas
    <3>2. \A i \in 1..(m - 1) : s[i].id # job.id
        BY <1>1, <2>1, <2>2 DEF OneToAnId
    <3> QED
        BY <3>1, <3>2 DEF Find
  <2>4. /\ ListOf(Job, t) /\ Len(t) = Len(s) + 1 /\ t[Len(s) + 1] = job
        /\ \A i \in 1..Len(s) : t[i] = s[i]
    <3>1. PutGives(Job, s, job, t)
        BY <2>2, CronPutHolds
    <3> QED
        BY <2>3, <3>1 DEF PutGives
  <2>5. Len(t) = m /\ \A i \in 1..m : t[i] = lines[i]
    <3>1. PICK k \in Nat : k = Len(lines) /\ m \in 1..k
        BY <1>1
    <3>2. Len(t) = m /\ t[m] = lines[m]
        BY <2>1, <2>2, <2>4, <3>1
    <3>3. ASSUME NEW i \in 1..(m - 1) PROVE t[i] = lines[i]
        BY <2>2, <2>4, <3>3
    <3>4. \A i \in 1..m : i = m \/ i \in 1..(m - 1)
        BY <3>1
    <3> QED
        BY <3>2, <3>3, <3>4
  <2> QED
      BY <2>1, <2>4, <2>5
<1>5. Len(lines) \in G
  <2> HIDE DEF G
  <2>1. PICK N \in Nat : N = Len(lines)
      BY <1>1
  <2>2. \A n \in 1..N : n - 1 \in G => n \in G
      BY <1>4, <2>1
  <2>3. N \in G
      BY <1>3, <2>2, UpTo
  <2> QED
      BY <2>1, <2>3
<1>6. PICK s : s = g[Len(lines)] /\ ListOf(Job, s) /\ Len(s) = Len(lines) /\ \A i \in 1..Len(lines) : s[i] = lines[i]
    BY <1>5
<1>7. s = lines
    BY <1>1, <1>6, SeqEqual DEF ListOf
<1> QED
    BY <1>2, <1>6, <1>7

(* A vector has room for its jobs.                                         *)
LEMMA GrownHolds ==
    ASSUME CronAssumption, NEW c \in Nat, NEW n \in Nat, n <= c + 1
    PROVE  Grown(c, n) \in Nat /\ n <= Grown(c, n)
BY DEF CronAssumption, Grown

(* The capacity after each push.                                           *)
LEMMA CapacityRuns ==
    ASSUME NEW len \in Nat
    PROVE  \E g : g[0] = 0 /\ Capacity(len) = g[len] /\ \A k \in 1..len : g[k] = Grown(g[k - 1], k)
<1> DEFINE Is(m, g) == g = [k \in 0..m |-> IF k = 0 THEN 0 ELSE Grown(g[k - 1], k)]
           G == {m \in 0..len : \E g : Is(m, g)}
<1>1. 0 \in G
  <2>1. PICK g : g = [k \in 0..0 |-> 0]
      OBVIOUS
  <2>2. Is(0, g)
      BY <2>1
  <2> QED
      BY <2>2
<1>2. ASSUME NEW m \in 1..len, m - 1 \in G PROVE m \in G
  <2>1. PICK g : Is(m - 1, g)
      BY <1>2
  <2>2. PICK h : h = [k \in 0..m |-> IF k = m THEN Grown(g[m - 1], m) ELSE g[k]]
      OBVIOUS
  <2>3. \A k \in 0..(m - 1) : h[k] = g[k]
      BY <2>2
  <2>4. ASSUME NEW k \in 0..m PROVE h[k] = IF k = 0 THEN 0 ELSE Grown(h[k - 1], k)
    <3>1. CASE k = m
        BY <2>2, <2>3, <3>1
    <3>2. CASE k # m
      <4>1. k \in 0..(m - 1) /\ (k # 0 => k - 1 \in 0..(m - 1))
          BY <3>2
      <4>2. g[k] = IF k = 0 THEN 0 ELSE Grown(g[k - 1], k)
          BY <2>1, <4>1
      <4> QED
          BY <2>3, <4>1, <4>2
    <3> QED
        BY <3>1, <3>2
  <2>5. Is(m, h)
      BY <2>2, <2>4
  <2>6. \E f : Is(m, f)
      BY <2>5
  <2> HIDE DEF Is
  <2> QED
      BY <2>6
<1>3. \E g : Is(len, g)
  <2>1. len \in G
    <3> HIDE DEF G
    <3> QED
        BY <1>1, <1>2, UpTo
  <2> QED
      BY <2>1
<1>4. PICK g : Is(len, g) /\ g = CHOOSE f : Is(len, f)
    BY <1>3
<1>5. Capacity(len) = g[len]
    BY <1>4 DEF Capacity
<1>6. g[0] = 0 /\ \A k \in 1..len : g[k] = Grown(g[k - 1], k)
    BY <1>4
<1> QED
    BY <1>5, <1>6

(* The vector that the start filled has room for its jobs.                 *)
LEMMA CapacityHolds ==
    ASSUME CronAssumption, NEW len \in Nat
    PROVE  Capacity(len) \in Nat /\ len <= Capacity(len)
<1>1. PICK g : g[0] = 0 /\ Capacity(len) = g[len] /\ \A k \in 1..len : g[k] = Grown(g[k - 1], k)
    BY CapacityRuns
<1> DEFINE G == {k \in 0..len : g[k] \in Nat /\ k <= g[k]}
<1>2. 0 \in G
    BY <1>1
<1>3. ASSUME NEW m \in 1..len, m - 1 \in G PROVE m \in G
  <2>1. PICK c : c = g[m - 1]
      OBVIOUS
  <2>2. c \in Nat /\ m <= c + 1 /\ m \in Nat
      BY <1>3, <2>1
  <2>3. Grown(c, m) \in Nat /\ m <= Grown(c, m)
    <3> HIDE DEF G
    <3> QED
        BY <2>2, GrownHolds
  <2> QED
      BY <1>1, <2>1, <2>3
<1>4. len \in G
  <2> HIDE DEF G
  <2> QED
      BY <1>2, <1>3, UpTo
<1> QED
    BY <1>1, <1>4

----------------------------------------------------------------------------
(* The jobs of the daemon: one to an id, each with a number of its own.    *)
LiveJob ==
    [id : JobIds, sched : JobSchedules, once : BOOLEAN, kind : {"agent", "shell"}, enabled : BOOLEAN,
     last : BOOLEAN, num : Nat, loaded : BOOLEAN]

JobsGood(js, ws) ==
    /\ ListOf(LiveJob, js) /\ OneToAnId(js) /\ ListOf(Nat, ws)
    /\ \A i \in DOMAIN js : js[i].num \in DOMAIN ws
    /\ \A i, j \in DOMAIN js : js[i].num = js[j].num => i = j

(* OnceJobs for some jobs and the runs they had.                           *)
OnceGood(js, ws) ==
    \A i \in DOMAIN js : js[i].once =>
        /\ ws[js[i].num] <= (IF js[i].loaded THEN 0 ELSE 1)
        /\ js[i].last <=> (js[i].loaded \/ ws[js[i].num] = 1)

(* A turn that nothing slipped away from writes its mark to the job it was *)
(* started for, or to one without once that was put in its place.          *)
TurnGood(js, x, e) ==
    /\ x \in DOMAIN js
    /\ \A i \in DOMAIN js : js[i].num = e => i = x
    /\ js[x].once => js[x].num = e /\ ~js[x].last

(* What a pass has behind it.                                              *)
DueNow == {job \in LiveJob : IsDue(job, now)}
PassedGood(js, x, due, s, r) ==
    \A i \in DOMAIN js : i < x /\ js[i] \in due /\ js[i].num \notin s => js[i].num \in r

DaemonShape ==
    /\ JobsGood(jobs, wins)
    /\ cap \in Nat /\ Len(jobs) <= cap
    /\ slot \in Nat /\ exec \in Nat
    /\ stage = "turn" => exec \in DOMAIN wins /\ exec # 0
    /\ stage # "turn" => exec = 0

DaemonFlags ==
    /\ stage \in {"idle", "scan", "turn"}
    /\ stage # "idle" \/ jobs # <<>> \/ armed => up
    /\ moved => slipped /\ stage = "turn"

DaemonSound ==
    /\ ~slipped => OnceGood(jobs, wins)
    /\ ~slipped /\ stage = "turn" => TurnGood(jobs, slot, exec) /\ PassedGood(jobs, slot + 1, DueNow, swapped, ran)
    /\ ~slipped /\ stage = "scan" => PassedGood(jobs, slot, DueNow, swapped, ran)

DaemonInv == DaemonShape /\ DaemonFlags /\ DaemonSound

ClockInv == nanocron \in BOOLEAN /\ wallClock \in 1..MaxInstant /\ now \in Nat /\ now <= wallClock

(* The processes of the command line and their file: commands that did not *)
(* overlap add up.                                                         *)
CliOf(c) ==
    /\ c = [pc |-> c.pc, command |-> c.command, store |-> c.store]
    /\ c.pc \in {"idle", "loaded", "writing", "flushed"}
    /\ ListOf(Job, c.store) /\ OneToAnId(c.store)

FileOf(f) == f = [lines |-> f.lines, ok |-> f.ok] /\ ListOf(Job, f.lines)

CleanOf(c, f, a) ==
    /\ \A p, q \in Commands : c[p].pc # "idle" /\ c[q].pc # "idle" => p = q
    /\ \A p \in Commands : c[p].pc # "idle" => c[p].store = Edit(a, c[p].command)
    /\ (\A p \in Commands : c[p].pc \notin {"writing", "flushed"}) => f.ok /\ Load(f.lines) = a

FileInv ==
    /\ FileOf(file) /\ ListOf(Job, summed) /\ OneToAnId(summed)
    /\ DOMAIN cli = Commands /\ \A p \in Commands : CliOf(cli[p])
    /\ clean => CleanOf(cli, file, summed)

CronInv == ClockInv /\ DaemonInv /\ FileInv

(* A job made of arguments.                                                *)
LEMMA NewJobHas ==
    ASSUME NEW id \in JobIds, NEW sched \in JobSchedules, NEW once \in BOOLEAN
    PROVE  /\ NewJob(id, sched, once) \in Job
           /\ NewJob(id, sched, once).once = once /\ NewJob(id, sched, once).id = id
BY DEF NewJob, Job

(* A job with its number.                                                  *)
LEMMA TaggedHas ==
    ASSUME NEW job \in Job, NEW n \in Nat, NEW t, t = Tagged(job, n)
    PROVE  /\ t \in LiveJob
           /\ t.num = n /\ t.id = job.id /\ t.once = job.once /\ t.last = job.last /\ t.loaded = job.last
BY DEF Tagged, Job, LiveJob

(* The initial states.                                                     *)
LEMMA CronStart ==
    ASSUME CronAssumption, CronInit
    PROVE  CronInv
<1>1. ClockInv
    BY DEF CronAssumption, CronInit, ClockInv
<1>2. DaemonInv
  <2>1. jobs = <<>> /\ wins = <<>> /\ cap = 0 /\ slot = 1 /\ exec = 0 /\ stage = "idle" /\ slipped = FALSE /\ moved = FALSE
        /\ armed = FALSE
      BY DEF CronInit
  <2>2. JobsGood(<<>>, <<>>) /\ OnceGood(<<>>, <<>>)
      BY DEF JobsGood, OnceGood, ListOf, OneToAnId
  <2>3. Len(<<>>) = 0
      OBVIOUS
  <2>4. DaemonShape
      BY <2>1, <2>2, <2>3 DEF DaemonShape
  <2>5. DaemonFlags
      BY <2>1 DEF DaemonFlags
  <2>6. DaemonSound
      BY <2>1, <2>2 DEF DaemonSound
  <2> QED
      BY <2>4, <2>5, <2>6 DEF DaemonInv
<1>3. FileInv
  <2>1. PICK f \in Files : file = [lines |-> f, ok |-> TRUE]
      BY DEF CronInit
  <2>2. file.lines = f /\ file.ok = TRUE /\ file = [lines |-> file.lines, ok |-> file.ok]
      BY <2>1
  <2>3. ListOf(Job, f)
      BY DEF CronAssumption, ListOf
  <2>4. summed = Load(f) /\ cli = [p \in Commands |-> Idle]
      BY <2>2 DEF CronInit
  <2>5. ListOf(Job, summed) /\ OneToAnId(summed)
      BY <2>3, <2>4, LoadHolds
  <2>6. ListOf(Job, <<>>) /\ OneToAnId(<<>>)
      BY DEF ListOf, OneToAnId
  <2>7. \A p \in Commands : cli[p] = Idle
      BY <2>4
  <2>8. Idle = [pc |-> Idle.pc, command |-> Idle.command, store |-> Idle.store] /\ Idle.pc = "idle" /\ Idle.store = <<>>
      BY DEF Idle
  <2>9. DOMAIN cli = Commands
      BY <2>4
  <2>10. \A p \in Commands :
          /\ cli[p] = [pc |-> cli[p].pc, command |-> cli[p].command, store |-> cli[p].store]
          /\ cli[p].pc = "idle"
          /\ ListOf(Job, cli[p].store) /\ OneToAnId(cli[p].store)
      BY <2>6, <2>7, <2>8
  <2> QED
      BY <2>2, <2>3, <2>4, <2>5, <2>9, <2>10 DEF FileInv, FileOf, CliOf, CleanOf
<1> QED
    BY <1>1, <1>2, <1>3 DEF CronInv

(* A daemon without jobs.                                                  *)
LEMMA NoJobs == JobsGood(<<>>, <<>>) /\ OnceGood(<<>>, <<>>) /\ Len(<<>>) = 0
BY DEF JobsGood, OnceGood, ListOf, OneToAnId

(* The daemon stops, by its own will or not.                               *)
LEMMA GoneHolds ==
    ASSUME Gone
    PROVE  DaemonInv'
<1>1. /\ jobs' = <<>> /\ wins' = <<>> /\ cap' = 0 /\ slot' = 1 /\ exec' = 0 /\ stage' = "idle" /\ slipped' = FALSE
      /\ moved' = FALSE /\ armed' = FALSE
    BY DEF Gone
<1>2. DaemonShape'
    BY <1>1, NoJobs DEF DaemonShape
<1>3. DaemonFlags'
    BY <1>1 DEF DaemonFlags
<1>4. DaemonSound'
    BY <1>1, NoJobs DEF DaemonSound
<1> QED
    BY <1>2, <1>3, <1>4 DEF DaemonInv

(* What is due depends on the build and the instant alone.                 *)
LEMMA DueFrame ==
    ASSUME UNCHANGED <<nanocron, now>>
    PROVE  DueNow' = DueNow
<1>1. \A job \in LiveJob : IsDue(job, now)' <=> IsDue(job, now)
    BY DEF IsDue, Instants
<1> QED
    BY <1>1 DEF DueNow

(* What the daemon says of itself while others act.                        *)
LEMMA DaemonFrame ==
    ASSUME DaemonInv, UNCHANGED <<mem, pass, wins, slipped, nanocron, now>>
    PROVE  DaemonInv'
<1>1. UNCHANGED <<up, armed, jobs, cap, stage, slot, exec, moved, ran, swapped, wins, slipped, nanocron, now>>
    BY DEF mem, pass
<1>2. DaemonShape'
    BY <1>1 DEF DaemonInv, DaemonShape
<1>3. DaemonFlags'
    BY <1>1 DEF DaemonInv, DaemonFlags
<1>4. DaemonSound'
  <2>1. DueNow' = DueNow
      BY <1>1, DueFrame
  <2> QED
      BY <1>1, <2>1 DEF DaemonInv, DaemonSound
<1> QED
    BY <1>2, <1>3, <1>4 DEF DaemonInv

(* The file and its commands while the daemon acts.                        *)
LEMMA FileFrame ==
    ASSUME FileInv, UNCHANGED disk
    PROVE  FileInv'
BY DEF FileInv, disk

(* The config's job takes its place.                                       *)
LEMMA WithConfigHolds ==
    ASSUME CronAssumption, NEW s, ListOf(Job, s), OneToAnId(s)
    PROVE  ListOf(Job, WithConfig(s)) /\ OneToAnId(WithConfig(s))
<1>1. CASE ConfigJobs = {}
    BY <1>1 DEF WithConfig
<1>2. CASE ConfigJobs # {}
  <2>1. PICK c \in ConfigJobs : WithConfig(s) = Put(s, NewJob(c.id, c.sched, c.once))
      BY <1>2 DEF WithConfig
  <2>2. c.id \in JobIds /\ c.sched \in JobSchedules /\ c.once \in BOOLEAN
      BY DEF CronAssumption, JobIds, JobSchedules
  <2>3. NewJob(c.id, c.sched, c.once) \in Job
      BY <2>2, NewJobHas
  <2>4. PutGives(Job, s, NewJob(c.id, c.sched, c.once), WithConfig(s))
      BY <2>1, <2>3, CronPutHolds
  <2> QED
      BY <2>4 DEF PutGives
<1> QED
    BY <1>1, <1>2

(* create_cron_from_config: every job has its number and no run yet.       *)
LEMMA StartHolds ==
    ASSUME CronAssumption, CronInv, StartDaemon
    PROVE  CronInv'
<1>1. ~up /\ stage = "idle" /\ moved = FALSE
    BY DEF CronInv, DaemonInv, DaemonFlags, StartDaemon
<1>2. PICK s : s = WithConfig(Load(file.lines))
    OBVIOUS
<1>3. ListOf(Job, s) /\ OneToAnId(s)
    BY <1>2, LoadHolds, WithConfigHolds DEF CronInv, FileInv, FileOf
<1>4. PICK n \in Nat : n = Len(s) /\ DOMAIN s = 1..n /\ \A i \in 1..n : s[i] \in Job
    BY <1>3, ListHas
<1>5. PICK js, ws : js = Numbered(s) /\ ws = [i \in 1..n |-> 0]
    OBVIOUS
<1>6. js = [i \in 1..n |-> Tagged(s[i], i)]
    BY <1>4, <1>5 DEF Numbered
<1>7. ASSUME NEW i \in 1..n
      PROVE  /\ js[i] \in LiveJob /\ js[i].num = i /\ js[i].id = s[i].id /\ js[i].last = js[i].loaded
             /\ ws[i] = 0
  <2>1. js[i] = Tagged(s[i], i) /\ s[i] \in Job /\ i \in Nat /\ ws[i] = 0
      BY <1>4, <1>5, <1>6
  <2> QED
      BY <2>1, TaggedHas
<1>8. /\ ListOf(LiveJob, js) /\ DOMAIN js = 1..n /\ Len(js) = n
      /\ ListOf(Nat, ws) /\ DOMAIN ws = 1..n
    BY <1>5, <1>6, <1>7 DEF ListOf
<1>9. JobsGood(js, ws)
  <2>1. OneToAnId(js)
      BY <1>3, <1>4, <1>7, <1>8 DEF OneToAnId
  <2> QED
      BY <1>7, <1>8, <2>1 DEF JobsGood
<1>10. OnceGood(js, ws)
  <2> SUFFICES ASSUME NEW i \in 1..n
               PROVE  ws[js[i].num] <= (IF js[i].loaded THEN 0 ELSE 1) /\ (js[i].last <=> (js[i].loaded \/ ws[js[i].num] = 1))
      BY <1>8 DEF OnceGood
  <2>1. ws[js[i].num] = 0 /\ js[i].last = js[i].loaded
      BY <1>7
  <2> QED
      BY <2>1
<1>11. /\ jobs' = js /\ wins' = ws /\ cap' = Capacity(n) /\ slipped' = FALSE /\ up' = TRUE
       /\ UNCHANGED <<stage, slot, exec, moved>> /\ now' = wallClock - 1 /\ UNCHANGED <<nanocron, wallClock, disk>>
    BY <1>2, <1>5, <1>8 DEF StartDaemon, pass
<1>12. Capacity(n) \in Nat /\ n <= Capacity(n)
    BY CapacityHolds
<1>13. DaemonShape'
    BY <1>1, <1>8, <1>9, <1>11, <1>12 DEF DaemonShape, CronInv, DaemonInv
<1>14. DaemonFlags'
    BY <1>1, <1>11 DEF DaemonFlags
<1>15. DaemonSound'
    BY <1>1, <1>10, <1>11 DEF DaemonSound
<1>16. ClockInv'
    BY <1>11 DEF CronInv, ClockInv, CronAssumption
<1> QED
    BY <1>11, <1>13, <1>14, <1>15, <1>16, FileFrame DEF CronInv, DaemonInv

(* run_cron_due_jobs.                                                      *)
LEMMA TickHolds ==
    ASSUME CronInv, CronTick
    PROVE  CronInv'
<1>1. /\ armed /\ stage = "idle" /\ wallClock > now /\ now' = wallClock /\ slot' = 1
      /\ stage' \in {"idle", "scan"}
      /\ UNCHANGED <<nanocron, wallClock, exec, moved, up, armed, jobs, cap, wins, slipped, disk>>
    BY DEF CronTick, mem
<1>2. up /\ moved = FALSE
    BY <1>1 DEF CronInv, DaemonInv, DaemonFlags
<1>3. DaemonShape'
    BY <1>1 DEF CronInv, DaemonInv, DaemonShape
<1>4. DaemonFlags'
    BY <1>1, <1>2 DEF DaemonFlags
<1>5. DaemonSound'
  <2>1. DOMAIN jobs = 1..Len(jobs) /\ Len(jobs) \in Nat
      BY ListHas DEF CronInv, DaemonInv, DaemonShape, JobsGood
  <2>2. PassedGood(jobs, 1, DueNow, swapped, ran)'
      BY <1>1, <2>1 DEF PassedGood
  <2> QED
      BY <1>1, <2>2 DEF CronInv, DaemonInv, DaemonSound
<1>6. ClockInv'
    BY <1>1 DEF CronInv, ClockInv
<1> QED
    BY <1>1, <1>3, <1>4, <1>5, <1>6, FileFrame DEF CronInv, DaemonInv

(* A pass finds nothing more that is due.                                  *)
LEMMA ScanDoneHolds ==
    ASSUME CronInv, ScanDone
    PROVE  CronInv'
<1>1. /\ stage = "scan" /\ stage' = "idle"
      /\ UNCHANGED <<nanocron, wallClock, now, up, armed, jobs, cap, slot, exec, moved, wins, slipped, disk>>
    BY DEF ScanDone, mem, time
<1>2. DaemonShape' /\ DaemonFlags' /\ DaemonSound'
    BY <1>1 DEF CronInv, DaemonInv, DaemonShape, DaemonFlags, DaemonSound
<1>3. ClockInv'
    BY <1>1 DEF CronInv, ClockInv
<1> QED
    BY <1>1, <1>2, <1>3, FileFrame DEF CronInv, DaemonInv

(* The slots that are due, as jobs of a set.                               *)
LEMMA DueSlotsAre ==
    ASSUME CronInv
    PROVE  /\ DueSlots = {i \in DOMAIN jobs : i >= slot /\ jobs[i] \in DueNow}
           /\ DOMAIN jobs = 1..Len(jobs) /\ Len(jobs) \in Nat
           /\ \A i \in DOMAIN jobs : jobs[i] \in LiveJob
<1>1. /\ DOMAIN jobs = 1..Len(jobs) /\ Len(jobs) \in Nat
      /\ \A i \in DOMAIN jobs : jobs[i] \in LiveJob
    BY ListHas DEF CronInv, DaemonInv, DaemonShape, JobsGood
<1>2. \A i \in DOMAIN jobs : IsDue(jobs[i], now) <=> jobs[i] \in DueNow
    BY <1>1 DEF DueNow
<1> QED
    BY <1>1, <1>2 DEF DueSlots

(* sc_cron_job_execute takes the least slot that is due: none is passed.   *)
LEMMA ExecuteHolds ==
    ASSUME CronInv, Execute
    PROVE  CronInv'
<1>1. PICK x : x = Min(DueSlots)
    OBVIOUS
<1>2. /\ stage = "scan" /\ DueSlots # {} /\ slot' = x /\ exec' = jobs[x].num /\ moved' = FALSE
      /\ ran' = ran \cup {jobs[x].num} /\ stage' = "turn"
      /\ UNCHANGED <<nanocron, wallClock, now, up, armed, jobs, cap, swapped, wins, slipped, disk>>
    BY <1>1 DEF Execute, mem, time
<1>3. /\ DOMAIN jobs = 1..Len(jobs) /\ Len(jobs) \in Nat
      /\ \A i \in DOMAIN jobs : jobs[i] \in LiveJob
      /\ DueSlots = {i \in DOMAIN jobs : i >= slot /\ jobs[i] \in DueNow}
    BY DueSlotsAre
<1>4. /\ JobsGood(jobs, wins) /\ cap \in Nat /\ Len(jobs) <= cap /\ slot \in Nat
      /\ up /\ (~slipped => OnceGood(jobs, wins) /\ PassedGood(jobs, slot, DueNow, swapped, ran))
    BY <1>2 DEF CronInv, DaemonInv, DaemonShape, DaemonFlags, DaemonSound
<1>5. x \in DueSlots /\ \A y \in DueSlots : x <= y
  <2>1. DueSlots \subseteq Nat
      BY <1>3
  <2> QED
      BY <1>1, <1>2, <2>1, MinOf
<1>6. x \in DOMAIN jobs /\ x \in Nat /\ jobs[x] \in DueNow /\ x >= slot
    BY <1>3, <1>5
<1>7. jobs[x].num \in DOMAIN wins /\ jobs[x].num \in Nat /\ jobs[x].num # 0
  <2>1. jobs[x].num \in DOMAIN wins
      BY <1>4, <1>6 DEF JobsGood
  <2>2. DOMAIN wins = 1..Len(wins) /\ Len(wins) \in Nat
      BY <1>4, ListHas DEF JobsGood
  <2> QED
      BY <2>1, <2>2
<1>8. DaemonShape'
    BY <1>2, <1>4, <1>6, <1>7 DEF DaemonShape
<1>9. DaemonFlags'
    BY <1>2, <1>4 DEF DaemonFlags
<1>10. TurnGood(jobs, x, jobs[x].num)
  <2>1. \A i \in DOMAIN jobs : jobs[i].num = jobs[x].num => i = x
      BY <1>4, <1>6 DEF JobsGood
  <2>2. jobs[x].once => ~jobs[x].last
      BY <1>6 DEF DueNow, IsDue
  <2> QED
      BY <1>6, <2>1, <2>2 DEF TurnGood
<1>11. ASSUME ~slipped PROVE PassedGood(jobs, x + 1, DueNow, swapped, ran \cup {jobs[x].num})
  <2> SUFFICES ASSUME NEW i \in DOMAIN jobs, i < x + 1, jobs[i] \in DueNow, jobs[i].num \notin swapped
               PROVE  jobs[i].num \in ran \cup {jobs[x].num}
      BY DEF PassedGood
  <2>1. i \in Nat
      BY <1>3
  <2>2. CASE i < slot
      BY <1>4, <1>11, <2>2 DEF PassedGood
  <2>3. CASE i >= slot
    <3>1. i \in DueSlots
        BY <1>3, <2>3
    <3>2. i = x
        BY <1>5, <1>6, <2>1, <3>1
    <3> QED
        BY <3>2
  <2> QED
      BY <1>4, <2>1, <2>2, <2>3
<1>12. DueNow' = DueNow
    BY <1>2, DueFrame
<1>13. DaemonSound'
    BY <1>2, <1>4, <1>10, <1>11, <1>12 DEF DaemonSound
<1>14. ClockInv'
    BY <1>2 DEF CronInv, ClockInv
<1> QED
    BY <1>2, <1>8, <1>9, <1>13, <1>14, FileFrame DEF CronInv, DaemonInv

(* The mark that a job has run.                                            *)
Marked(js, x) == [js EXCEPT ![x].last = TRUE]

MarkedOf(m, js, i, x) ==
    /\ m \in LiveJob
    /\ m.id = js[i].id /\ m.num = js[i].num /\ m.once = js[i].once /\ m.loaded = js[i].loaded
    /\ m.last = IF i = x THEN TRUE ELSE js[i].last
    /\ m \in DueNow => js[i] \in DueNow

(* Only the mark differs, and a marked job is not due if it was not.       *)
LEMMA MarkedJob ==
    ASSUME NEW x, NEW i \in DOMAIN jobs, ListOf(LiveJob, jobs),
           NEW m, m = Marked(jobs, x)
    PROVE  MarkedOf(m[i], jobs, i, x)
<1>1. jobs[i] \in LiveJob
    BY ListHas
<1>2. CASE i # x
    BY <1>1, <1>2 DEF Marked, MarkedOf
<1>3. CASE i = x
  <2>1. PICK a, b : a = jobs[i] /\ b = [a EXCEPT !.last = TRUE] /\ b = m[i] /\ DOMAIN m = DOMAIN jobs
      BY <1>3 DEF Marked
  <2>2. /\ b \in LiveJob /\ b.id = a.id /\ b.num = a.num /\ b.once = a.once /\ b.loaded = a.loaded /\ b.last = TRUE
        /\ b.enabled = a.enabled /\ b.sched = a.sched
      BY <1>1, <2>1 DEF LiveJob
  <2>3. ASSUME b \in DueNow PROVE a \in DueNow
    <3>1. IsDue(b, now)
        BY <2>3 DEF DueNow
    <3>2. IsDue(a, now)
        BY <2>2, <3>1 DEF IsDue
    <3> QED
        BY <1>1, <2>1, <3>2 DEF DueNow
  <2> QED
      BY <1>3, <2>1, <2>2, <2>3 DEF MarkedOf
<1> QED
    BY <1>2, <1>3

(* sc_cron_job_execute writes its mark, if the slot is still that of the   *)
(* job.                                                                    *)
LEMMA SucceedsHolds ==
    ASSUME CronInv, JobSucceeds
    PROVE  CronInv'
<1>1. PICK js, ws : js = Mark /\ ws = [wins EXCEPT ![exec] = @ + 1]
    OBVIOUS
<1>2. /\ stage = "turn" /\ jobs' = js /\ wins' = ws /\ stage' = "scan" /\ slot' = slot + 1 /\ exec' = 0 /\ moved' = FALSE
      /\ UNCHANGED <<nanocron, wallClock, now, up, armed, cap, ran, swapped, slipped, disk>>
    BY <1>1 DEF JobSucceeds, time
<1>3. /\ JobsGood(jobs, wins) /\ ListOf(LiveJob, jobs) /\ ListOf(Nat, wins) /\ OneToAnId(jobs)
      /\ cap \in Nat /\ Len(jobs) <= cap /\ slot \in Nat /\ exec \in DOMAIN wins /\ up
      /\ moved => slipped
      /\ ~slipped => OnceGood(jobs, wins) /\ TurnGood(jobs, slot, exec) /\ PassedGood(jobs, slot + 1, DueNow, swapped, ran)
    BY <1>2 DEF CronInv, DaemonInv, DaemonShape, DaemonFlags, DaemonSound, JobsGood
<1>4. /\ DOMAIN jobs = 1..Len(jobs) /\ Len(jobs) \in Nat
      /\ DOMAIN wins = 1..Len(wins) /\ Len(wins) \in Nat /\ \A i \in DOMAIN wins : wins[i] \in Nat
    BY <1>3, ListHas
<1>5. /\ ListOf(Nat, ws) /\ DOMAIN ws = DOMAIN wins
      /\ \A i \in DOMAIN wins : ws[i] = IF i = exec THEN wins[i] + 1 ELSE wins[i]
    BY <1>1, <1>3, <1>4 DEF ListOf
<1>6. /\ DOMAIN js = DOMAIN jobs
      /\ \A i \in DOMAIN jobs :
            /\ js[i] \in LiveJob
            /\ js[i].id = jobs[i].id /\ js[i].num = jobs[i].num /\ js[i].once = jobs[i].once /\ js[i].loaded = jobs[i].loaded
            /\ js[i] \in DueNow => jobs[i] \in DueNow
            /\ ~slipped => js[i].last = IF i = slot THEN TRUE ELSE jobs[i].last
  <2>1. CASE moved \/ slot \notin DOMAIN jobs
    <3>1. js = jobs
        BY <1>1, <2>1 DEF Mark
    <3>2. slipped
        BY <1>3, <2>1 DEF TurnGood
    <3> QED
        BY <1>3, <1>4, <3>1, <3>2, ListHas
  <2>2. CASE ~(moved \/ slot \notin DOMAIN jobs)
    <3>1. js = Marked(jobs, slot)
        BY <1>1, <2>2 DEF Mark, Marked
    <3>2. DOMAIN js = DOMAIN jobs
        BY <3>1 DEF Marked
    <3>3. ASSUME NEW i \in DOMAIN jobs
          PROVE  /\ js[i] \in LiveJob
                 /\ js[i].id = jobs[i].id /\ js[i].num = jobs[i].num /\ js[i].once = jobs[i].once /\ js[i].loaded = jobs[i].loaded
                 /\ js[i] \in DueNow => jobs[i] \in DueNow
                 /\ js[i].last = IF i = slot THEN TRUE ELSE jobs[i].last
      <4>1. ListOf(LiveJob, jobs)
          BY <1>3
      <4>2. MarkedOf(js[i], jobs, i, slot)
          BY <3>1, <4>1, MarkedJob
      <4> QED
          BY <4>2 DEF MarkedOf
    <3> QED
        BY <3>2, <3>3
  <2> QED
      BY <2>1, <2>2
<1>7. ListOf(LiveJob, js) /\ Len(js) = Len(jobs)
  <2>1. PICK n \in Nat : n = Len(jobs) /\ DOMAIN js = 1..n /\ \A i \in 1..n : js[i] \in LiveJob
      BY <1>4, <1>6
  <2>2. js = [i \in DOMAIN js |-> js[i]]
    <3>1. CASE moved \/ slot \notin DOMAIN jobs
      <4>1. js = jobs
          BY <1>1, <3>1 DEF Mark
      <4> QED
          BY <1>3, <4>1 DEF ListOf
    <3>2. CASE ~(moved \/ slot \notin DOMAIN jobs)
      <4>1. js = [jobs EXCEPT ![slot].last = TRUE]
          BY <1>1, <3>2 DEF Mark
      <4> QED
          BY <4>1
    <3> QED
        BY <3>1, <3>2
  <2>3. js \in [1..n -> LiveJob]
      BY <2>1, <2>2
  <2> QED
      BY <2>1, <2>3 DEF ListOf
<1>8. JobsGood(js, ws)
    BY <1>3, <1>5, <1>6, <1>7 DEF JobsGood, OneToAnId
<1>9. ASSUME ~slipped PROVE OnceGood(js, ws)
  <2> SUFFICES ASSUME NEW i \in DOMAIN jobs, js[i].once
               PROVE  ws[js[i].num] <= (IF js[i].loaded THEN 0 ELSE 1) /\ (js[i].last <=> (js[i].loaded \/ ws[js[i].num] = 1))
      BY <1>6 DEF OnceGood
  <2>1. PICK w \in Nat : w = wins[jobs[i].num] /\ jobs[i].num \in DOMAIN wins
      BY <1>3, <1>4 DEF JobsGood
  <2>2. jobs[i].once /\ w <= (IF jobs[i].loaded THEN 0 ELSE 1) /\ (jobs[i].last <=> (jobs[i].loaded \/ w = 1))
      BY <1>3, <1>6, <1>9, <2>1 DEF OnceGood
  <2>3. CASE i = slot
    <3>1. jobs[i].num = exec /\ ~jobs[i].last
        BY <1>3, <1>9, <2>2, <2>3 DEF TurnGood
    <3>2. w = 0 /\ ~jobs[i].loaded
        BY <2>1, <2>2, <3>1
    <3>3. js[i].last /\ js[i].loaded = jobs[i].loaded /\ js[i].num = exec
        BY <1>6, <1>9, <2>3, <3>1
    <3>4. ws[exec] = w + 1
        BY <1>3, <1>5, <2>1, <3>1
    <3> QED
        BY <3>2, <3>3, <3>4
  <2>4. CASE i # slot
    <3>1. jobs[i].num # exec
        BY <1>3, <1>9, <2>4 DEF TurnGood
    <3>2. ws[js[i].num] = w
        BY <1>5, <1>6, <2>1, <3>1
    <3>3. js[i].last = jobs[i].last /\ js[i].loaded = jobs[i].loaded
        BY <1>6, <1>9, <2>4
    <3> QED
        BY <2>2, <3>2, <3>3
  <2> QED
      BY <2>3, <2>4
<1>10. ASSUME ~slipped PROVE PassedGood(js, slot + 1, DueNow, swapped, ran)
    BY <1>3, <1>6, <1>10 DEF PassedGood
<1>11. DaemonShape'
  <2>1. slot + 1 \in Nat
      BY <1>3
  <2>2. Len(js) <= cap
      BY <1>3, <1>7
  <2> QED
      BY <1>2, <1>3, <1>8, <2>1, <2>2 DEF DaemonShape
<1>12. DaemonFlags'
    BY <1>2, <1>3 DEF DaemonFlags
<1>13. DueNow' = DueNow
    BY <1>2, DueFrame
<1>14. DaemonSound'
    BY <1>2, <1>9, <1>10, <1>13 DEF DaemonSound
<1>15. ClockInv'
    BY <1>2 DEF CronInv, ClockInv
<1> QED
    BY <1>2, <1>11, <1>12, <1>14, <1>15, FileFrame DEF CronInv, DaemonInv

(* cron_upsert: a job of its own number is appended or takes the place of  *)
(* the one of its id.                                                      *)
LEMMA UpsertHolds ==
    ASSUME CronAssumption, CronInv, NEW id \in Ids, NEW sched \in Schedules, ToolUpsert(id, sched)
    PROVE  CronInv'
<1>1. /\ ListOf(LiveJob, jobs) /\ OneToAnId(jobs) /\ ListOf(Nat, wins) /\ JobsGood(jobs, wins)
      /\ cap \in Nat /\ Len(jobs) <= cap /\ slot \in Nat /\ exec \in Nat
      /\ stage = "turn" => exec \in DOMAIN wins /\ exec # 0
      /\ stage # "turn" => exec = 0
    BY DEF CronInv, DaemonInv, DaemonShape, JobsGood
<1>2. PICK n, k \in Nat : /\ n = Len(jobs) /\ DOMAIN jobs = 1..n
                          /\ k = Len(wins) /\ DOMAIN wins = 1..k /\ \A i \in 1..k : wins[i] \in Nat
    BY <1>1, ListHas
<1>3. PICK new, job : new = NewJob(id, sched, FALSE) /\ job = Tagged(new, k + 1)
    OBVIOUS
<1>4. job \in LiveJob /\ job.num = k + 1 /\ job.id = id /\ ~job.once
  <2>1. id \in JobIds /\ sched \in JobSchedules /\ FALSE \in BOOLEAN
      BY DEF JobIds, JobSchedules
  <2>2. new \in Job /\ new.once = FALSE /\ new.id = id
      BY <1>3, <2>1, NewJobHas
  <2>3. PICK l : l = k + 1
      OBVIOUS
  <2>4. l \in Nat /\ job = Tagged(new, l)
      BY <1>3, <2>3
  <2>5. job \in LiveJob /\ job.num = l /\ job.id = new.id /\ job.once = new.once
      BY <2>2, <2>4, TaggedHas
  <2> QED
      BY <2>2, <2>3, <2>5
<1>5. PICK js, ws, s : /\ js = Put(jobs, job) /\ ws = Append(wins, 0)
                       /\ s = IF Find(jobs, id) = {} THEN swapped ELSE swapped \cup {job.num}
    OBVIOUS
<1>6. PICK m \in BOOLEAN, away \in BOOLEAN : m = (moved \/ (away /\ stage = "turn" /\ cap' # cap)) /\ moved' = m
    BY DEF ToolUpsert
<1>7. /\ up /\ stage \in {"idle", "turn"} /\ jobs' = js /\ wins' = ws /\ swapped' = s
      /\ cap' = Grown(cap, Len(js)) /\ slipped' = (slipped \/ moved')
      /\ UNCHANGED <<nanocron, wallClock, now, up, armed, stage, slot, exec, ran, disk>>
    BY <1>2, <1>3, <1>5 DEF ToolUpsert, ToolRuns, time
<1>8. /\ ListOf(LiveJob, js) /\ OneToAnId(js)
      /\ Find(jobs, id) = {} => Len(js) = n + 1 /\ js[n + 1] = job /\ \A i \in 1..n : js[i] = jobs[i]
      /\ Find(jobs, id) # {} => Len(js) = n /\ \A i \in 1..n : js[i] = IF jobs[i].id = id THEN job ELSE jobs[i]
  <2>1. job \in LiveJob
      BY <1>4
  <2>2. ListOf(LiveJob, jobs)
      BY <1>1
  <2>3. js = Put(jobs, job)
      BY <1>5
  <2>4. PutGives(LiveJob, jobs, job, js)
      BY <2>1, <2>2, <2>3, CronPutHolds
  <2> QED
      BY <1>1, <1>2, <1>4, <2>4 DEF PutGives
<1>9. /\ ListOf(Nat, ws) /\ DOMAIN ws = 1..(k + 1) /\ \A i \in 1..k : ws[i] = wins[i]
    BY <1>1, <1>2, <1>5 DEF ListOf
<1>10. /\ DOMAIN js = 1..Len(js) /\ Len(js) \in Nat /\ Len(js) <= n + 1 /\ n <= Len(js)
       /\ \A i \in DOMAIN js : \/ i \in 1..n /\ js[i] = jobs[i]
                               \/ js[i] = job /\ (i = n + 1 \/ job.num \in s)
  <2>1. DOMAIN js = 1..Len(js)
      BY <1>8, ListHas
  <2>2. CASE Find(jobs, id) = {}
      BY <1>8, <2>1, <2>2
  <2>3. CASE Find(jobs, id) # {}
    <3>1. Len(js) = n /\ DOMAIN js = 1..n /\ job.num \in s
        BY <1>5, <1>8, <2>1, <2>3
    <3>2. \A i \in 1..n : js[i] = jobs[i] \/ js[i] = job
        BY <1>8, <2>3
    <3> QED
        BY <3>1, <3>2
  <2> QED
      BY <2>2, <2>3
<1>11. \A i \in 1..n : jobs[i].num \in 1..k /\ jobs[i].num # job.num
    BY <1>1, <1>2, <1>4 DEF JobsGood
<1>12. ASSUME NEW i \in DOMAIN js, NEW j \in DOMAIN js, js[i] = job, js[j] = job PROVE i = j
    BY <1>8, <1>12 DEF OneToAnId
<1>13. JobsGood(js, ws)
  <2>1. \A i \in DOMAIN js : js[i].num \in 1..(k + 1)
      BY <1>4, <1>10, <1>11
  <2>2. ASSUME NEW i \in DOMAIN js, NEW j \in DOMAIN js, js[i].num = js[j].num PROVE i = j
    <3>1. CASE js[i] = job /\ js[j] = job
        BY <1>12, <3>1
    <3>2. CASE (js[i] = job) # (js[j] = job)
        BY <1>10, <1>11, <2>2, <3>2
    <3>3. CASE js[i] # job /\ js[j] # job
      <4>1. i \in 1..n /\ j \in 1..n /\ js[i] = jobs[i] /\ js[j] = jobs[j]
          BY <1>10, <3>3
      <4> QED
          BY <1>1, <1>2, <2>2, <4>1 DEF JobsGood
    <3> QED
        BY <3>1, <3>2, <3>3
  <2> QED
      BY <1>8, <1>9, <2>1, <2>2 DEF JobsGood
<1>14. ASSUME OnceGood(jobs, wins) PROVE OnceGood(js, ws)
  <2> SUFFICES ASSUME NEW i \in DOMAIN js, js[i].once
               PROVE  ws[js[i].num] <= (IF js[i].loaded THEN 0 ELSE 1) /\ (js[i].last <=> (js[i].loaded \/ ws[js[i].num] = 1))
      BY DEF OnceGood
  <2>1. i \in 1..n /\ js[i] = jobs[i]
      BY <1>4, <1>10
  <2>2. ws[js[i].num] = wins[jobs[i].num]
      BY <1>9, <1>11, <2>1
  <2> QED
      BY <1>2, <1>14, <2>1, <2>2 DEF OnceGood
<1>15. ASSUME stage = "turn", TurnGood(jobs, slot, exec) PROVE TurnGood(js, slot, exec)
  <2>1. slot \in 1..n /\ slot \in DOMAIN js
      BY <1>2, <1>10, <1>15 DEF TurnGood
  <2>2. exec # job.num
      BY <1>1, <1>2, <1>4, <1>15
  <2>3. \A i \in DOMAIN js : js[i].num = exec => i = slot
      BY <1>2, <1>10, <1>15, <2>2 DEF TurnGood
  <2>4. js[slot].once => js[slot] = jobs[slot]
      BY <1>4, <1>10, <2>1
  <2> QED
      BY <1>15, <2>1, <2>3, <2>4 DEF TurnGood
<1>16. ASSUME TurnGood(jobs, slot, exec), PassedGood(jobs, slot + 1, DueNow, swapped, ran)
       PROVE  PassedGood(js, slot + 1, DueNow, s, ran)
  <2>1. slot \in 1..n
      BY <1>2, <1>16 DEF TurnGood
  <2>2. \A y : y \notin s => y \notin swapped
      BY <1>5
  <2> SUFFICES ASSUME NEW i \in DOMAIN js, i < slot + 1, js[i] \in DueNow, js[i].num \notin s
               PROVE  js[i].num \in ran
      BY DEF PassedGood
  <2>3. i # n + 1
      BY <2>1
  <2>4. i \in 1..n /\ js[i] = jobs[i]
      BY <1>10, <2>3
  <2> QED
      BY <1>2, <1>16, <2>2, <2>4 DEF PassedGood
<1>17. DaemonShape'
  <2>1. Grown(cap, Len(js)) \in Nat /\ Len(js) <= Grown(cap, Len(js))
    <3>1. PICK l : l = Len(js)
        OBVIOUS
    <3>2. l \in Nat /\ l <= cap + 1 /\ cap \in Nat
        BY <1>1, <1>2, <1>10, <3>1
    <3>3. Grown(cap, l) \in Nat /\ l <= Grown(cap, l)
        BY <3>2, GrownHolds
    <3> QED
        BY <3>1, <3>3
  <2>2. stage = "turn" => exec \in DOMAIN ws
      BY <1>1, <1>2, <1>9
  <2> QED
      BY <1>1, <1>7, <1>13, <2>1, <2>2 DEF DaemonShape
<1>18. DaemonFlags'
  <2>1. moved => slipped /\ stage = "turn"
      BY DEF CronInv, DaemonInv, DaemonFlags
  <2>2. moved' => slipped' /\ stage = "turn"
      BY <1>6, <1>7, <2>1
  <2> QED
      BY <1>7, <2>2 DEF DaemonFlags
<1>19. DueNow' = DueNow
    BY <1>7, DueFrame
<1>20. DaemonSound'
  <2>1. ASSUME ~slipped'
        PROVE  /\ OnceGood(jobs, wins)
               /\ stage = "turn" => TurnGood(jobs, slot, exec) /\ PassedGood(jobs, slot + 1, DueNow, swapped, ran)
    <3>1. ~slipped
        BY <1>7, <2>1
    <3> QED
        BY <3>1 DEF CronInv, DaemonInv, DaemonSound
  <2>2. ASSUME ~slipped'
        PROVE  /\ OnceGood(js, ws)
               /\ stage = "turn" => TurnGood(js, slot, exec) /\ PassedGood(js, slot + 1, DueNow, s, ran)
      BY <1>14, <1>15, <1>16, <2>1, <2>2
  <2> QED
      BY <1>7, <1>19, <2>2 DEF DaemonSound
<1>21. ClockInv'
    BY <1>7 DEF CronInv, ClockInv
<1> QED
    BY <1>7, <1>17, <1>18, <1>20, <1>21, FileFrame DEF CronInv, DaemonInv

(* cron_remove: the jobs behind the removed one move up.                   *)
LEMMA RemoveHolds ==
    ASSUME CronInv, NEW id \in Ids, ToolRemove(id)
    PROVE  CronInv'
<1>1. /\ ListOf(LiveJob, jobs) /\ OneToAnId(jobs) /\ ListOf(Nat, wins) /\ JobsGood(jobs, wins)
      /\ cap \in Nat /\ Len(jobs) <= cap /\ slot \in Nat /\ exec \in Nat
      /\ stage = "turn" => exec \in DOMAIN wins /\ exec # 0
      /\ stage # "turn" => exec = 0
    BY DEF CronInv, DaemonInv, DaemonShape, JobsGood
<1>2. PICK js : js = Without(jobs, id)
    OBVIOUS
<1>3. /\ up /\ stage \in {"idle", "turn"} /\ Find(jobs, id) # {} /\ jobs' = js /\ slipped' = (slipped \/ stage = "turn")
      /\ UNCHANGED <<nanocron, wallClock, now, up, armed, cap, stage, slot, exec, moved, ran, swapped, wins, disk>>
    BY <1>2 DEF ToolRemove, ToolRuns, time, pass
<1>4. PICK n \in Nat : n = Len(jobs) /\ DOMAIN jobs = 1..n
    BY <1>1, ListHas
<1>5. /\ ListOf(LiveJob, js) /\ OneToAnId(js)
      /\ \E x \in 1..n : Len(js) = n - 1 /\ \A i \in 1..(n - 1) : js[i] = IF i < x THEN jobs[i] ELSE jobs[i + 1]
  <2>1. ListOf(LiveJob, jobs)
      BY <1>1
  <2>2. WithoutGives(LiveJob, jobs, id, js)
      BY <1>2, <2>1, WithoutHolds
  <2> QED
      BY <1>1, <1>3, <1>4, <2>2 DEF WithoutGives
<1>6. PICK x \in 1..n : Len(js) = n - 1 /\ \A i \in 1..(n - 1) : js[i] = IF i < x THEN jobs[i] ELSE jobs[i + 1]
    BY <1>5
<1>7. DOMAIN js = 1..(n - 1)
    BY <1>5, <1>6, ListHas
<1>8. \A i \in DOMAIN js : \E l \in 1..n : js[i] = jobs[l] /\ l = IF i < x THEN i ELSE i + 1
    BY <1>4, <1>6, <1>7
<1>9. JobsGood(js, wins)
  <2>1. \A i \in DOMAIN js : js[i].num \in DOMAIN wins
      BY <1>1, <1>4, <1>8 DEF JobsGood
  <2>2. ASSUME NEW i \in DOMAIN js, NEW j \in DOMAIN js, js[i].num = js[j].num PROVE i = j
    <3>1. PICK l \in 1..n : js[i] = jobs[l] /\ l = IF i < x THEN i ELSE i + 1
        BY <1>8
    <3>2. PICK r \in 1..n : js[j] = jobs[r] /\ r = IF j < x THEN j ELSE j + 1
        BY <1>8
    <3>3. l = r
        BY <1>1, <1>4, <2>2, <3>1, <3>2 DEF JobsGood
    <3> QED
        BY <1>7, <3>1, <3>2, <3>3
  <2> QED
      BY <1>1, <1>5, <2>1, <2>2 DEF JobsGood
<1>10. ASSUME OnceGood(jobs, wins) PROVE OnceGood(js, wins)
    BY <1>4, <1>8, <1>10 DEF OnceGood
<1>11. DaemonShape'
  <2>1. Len(js) <= cap
      BY <1>1, <1>4, <1>6
  <2> QED
      BY <1>1, <1>3, <1>9, <2>1 DEF DaemonShape
<1>12. DaemonFlags'
    BY <1>3 DEF CronInv, DaemonInv, DaemonFlags
<1>13. DaemonSound'
  <2>1. ASSUME ~slipped' PROVE stage = "idle" /\ OnceGood(js, wins)
      BY <1>3, <1>10, <2>1 DEF CronInv, DaemonInv, DaemonSound
  <2> QED
      BY <1>3, <2>1 DEF DaemonSound
<1>14. ClockInv'
    BY <1>3 DEF CronInv, ClockInv
<1> QED
    BY <1>3, <1>11, <1>12, <1>13, <1>14, FileFrame DEF CronInv, DaemonInv

(* The store a command has edited.                                         *)
ACommand(c) ==
    \/ \E id \in Ids : c = [op |-> "remove", id |-> id]
    \/ \E id \in Ids : \E sched \in Schedules : c = [op |-> "add", id |-> id, sched |-> sched]

(* It has one job to an id, as before.                                     *)
LEMMA EditHolds ==
    ASSUME NEW s, ListOf(Job, s), OneToAnId(s), NEW c, ACommand(c)
    PROVE  ListOf(Job, Edit(s, c)) /\ OneToAnId(Edit(s, c))
<1>1. ASSUME NEW id \in Ids, NEW sched \in Schedules, c = [op |-> "add", id |-> id, sched |-> sched]
      PROVE  ListOf(Job, Edit(s, c)) /\ OneToAnId(Edit(s, c))
  <2>1. PICK job : job = NewJob(id, sched, FALSE)
      OBVIOUS
  <2>2. id \in JobIds /\ sched \in JobSchedules /\ FALSE \in BOOLEAN
      BY DEF JobIds, JobSchedules
  <2>3. job \in Job
      BY <2>1, <2>2, NewJobHas
  <2>4. Edit(s, c) = Put(s, job)
      BY <1>1, <2>1 DEF Edit
  <2>5. PutGives(Job, s, job, Edit(s, c))
      BY <2>3, <2>4, CronPutHolds
  <2> QED
      BY <2>5 DEF PutGives
<1>2. ASSUME NEW id \in Ids, c = [op |-> "remove", id |-> id]
      PROVE  ListOf(Job, Edit(s, c)) /\ OneToAnId(Edit(s, c))
  <2>1. Edit(s, c) = Without(s, id)
      BY <1>2 DEF Edit
  <2>2. WithoutGives(Job, s, id, Edit(s, c))
      BY <2>1, WithoutHolds
  <2> QED
      BY <2>2 DEF WithoutGives
<1> QED
    BY <1>1, <1>2 DEF ACommand

(* What a command leaves alone.                                            *)
LEMMA CommandFrame ==
    ASSUME CronInv, UNCHANGED <<time, mem, pass, wins, slipped>>, FileInv'
    PROVE  CronInv'
<1>1. UNCHANGED <<nanocron, wallClock, now>>
    BY DEF time
<1>2. DaemonInv'
    BY <1>1, DaemonFrame DEF CronInv
<1>3. ClockInv'
    BY <1>1 DEF CronInv, ClockInv
<1> QED
    BY <1>2, <1>3 DEF CronInv

(* A command has read the file and edited its copy.                        *)
LEMMA LoadsHolds ==
    ASSUME CronInv, NEW p \in Commands, NEW command, ACommand(command), Loads(p, command)
    PROVE  CronInv'
<1>1. PICK s, c : s = Edit(Load(file.lines), command) /\ c = [cli EXCEPT ![p] = [pc |-> "loaded", command |-> command, store |-> s]]
    OBVIOUS
<1>2. /\ cli[p].pc = "idle" /\ file.ok /\ cli' = c /\ clean' = (clean /\ Alone(p))
      /\ UNCHANGED <<file, summed>> /\ UNCHANGED <<time, mem, pass, wins, slipped>>
    BY <1>1 DEF Loads
<1>3. /\ FileOf(file) /\ ListOf(Job, summed) /\ OneToAnId(summed) /\ DOMAIN cli = Commands /\ \A q \in Commands : CliOf(cli[q])
      /\ clean => CleanOf(cli, file, summed)
    BY DEF CronInv, FileInv
<1>4. ListOf(Job, s) /\ OneToAnId(s)
  <2>1. ListOf(Job, Load(file.lines)) /\ OneToAnId(Load(file.lines))
      BY <1>3, LoadHolds DEF FileOf
  <2> QED
      BY <1>1, <2>1, EditHolds
<1>5. DOMAIN c = Commands /\ c[p] = [pc |-> "loaded", command |-> command, store |-> s] /\ \A q \in Commands \ {p} : c[q] = cli[q]
    BY <1>1, <1>3
<1>6. c[p].pc = "loaded" /\ c[p].command = command /\ c[p].store = s
    BY <1>5
<1>7. CliOf(c[p])
  <2>1. c[p] = [pc |-> c[p].pc, command |-> c[p].command, store |-> c[p].store]
      BY <1>5, <1>6
  <2> QED
      BY <1>4, <1>6, <2>1 DEF CliOf
<1>8. \A q \in Commands : CliOf(c[q])
    BY <1>3, <1>5, <1>7
<1>9. ASSUME clean, Alone(p) PROVE CleanOf(c, file, summed)
  <2>1. \A q \in Commands : q # p => c[q].pc = "idle"
      BY <1>5, <1>9 DEF Alone
  <2>2. \A q \in Commands : cli[q].pc \notin {"writing", "flushed"}
      BY <1>2, <1>9 DEF Alone
  <2>3. Load(file.lines) = summed /\ file.ok
      BY <1>3, <1>9, <2>2 DEF CleanOf
  <2>4. s = Edit(summed, command)
      BY <1>1, <2>3
  <2> QED
      BY <1>6, <2>1, <2>3, <2>4 DEF CleanOf
<1>10. FileInv'
  <2>1. FileOf(file') /\ ListOf(Job, summed') /\ OneToAnId(summed')
      BY <1>2, <1>3
  <2>2. DOMAIN cli' = Commands /\ \A q \in Commands : CliOf(cli'[q])
      BY <1>2, <1>5, <1>8
  <2>3. clean' => CleanOf(cli', file', summed')
      BY <1>2, <1>9
  <2> QED
      BY <2>1, <2>2, <2>3 DEF FileInv
<1> QED
    BY <1>2, <1>10, CommandFrame

(* It opens the file: the file holds nothing.                              *)
LEMMA TruncatesHolds ==
    ASSUME CronInv, NEW p \in Commands, CommandTruncates(p)
    PROVE  CronInv'
<1>1. PICK c : c = [cli EXCEPT ![p].pc = "writing"]
    OBVIOUS
<1>2. /\ cli[p].pc = "loaded" /\ cli' = c /\ file' = NoFile
      /\ UNCHANGED <<summed, clean>> /\ UNCHANGED <<time, mem, pass, wins, slipped>>
    BY <1>1 DEF CommandTruncates
<1>3. /\ ListOf(Job, summed) /\ OneToAnId(summed) /\ DOMAIN cli = Commands /\ \A q \in Commands : CliOf(cli[q])
      /\ clean => CleanOf(cli, file, summed)
    BY DEF CronInv, FileInv
<1>4. /\ DOMAIN c = Commands /\ \A q \in Commands \ {p} : c[q] = cli[q]
      /\ CliOf(c[p]) /\ c[p].pc = "writing" /\ c[p].command = cli[p].command /\ c[p].store = cli[p].store
    BY <1>1, <1>3 DEF CliOf
<1>5. ASSUME clean PROVE CleanOf(c, NoFile, summed)
  <2>1. CleanOf(cli, file, summed)
      BY <1>3, <1>5
  <2>2. \A q \in Commands : q # p => c[q].pc = "idle"
      BY <1>2, <1>4, <2>1 DEF CleanOf
  <2>3. c[p].store = Edit(summed, c[p].command)
      BY <1>2, <1>4, <2>1 DEF CleanOf
  <2> QED
      BY <1>4, <2>2, <2>3 DEF CleanOf
<1>6. FileInv'
  <2>1. FileOf(file')
      BY <1>2 DEF FileOf, NoFile, ListOf
  <2>2. ListOf(Job, summed') /\ OneToAnId(summed')
      BY <1>2, <1>3
  <2>3. DOMAIN cli' = Commands /\ \A q \in Commands : CliOf(cli'[q])
      BY <1>2, <1>3, <1>4
  <2>4. clean' => CleanOf(cli', file', summed')
      BY <1>2, <1>5
  <2> QED
      BY <2>1, <2>2, <2>3, <2>4 DEF FileInv
<1> QED
    BY <1>2, <1>6, CommandFrame

(* It writes a part.                                                       *)
LEMMA FlushesHolds ==
    ASSUME CronInv, NEW p \in Commands, CommandFlushes(p)
    PROVE  CronInv'
<1>1. PICK c : c = [cli EXCEPT ![p].pc = "flushed"]
    OBVIOUS
<1>2. /\ cli[p].pc = "writing" /\ cli' = c
      /\ UNCHANGED <<summed, clean>> /\ UNCHANGED <<time, mem, pass, wins, slipped>>
    BY <1>1 DEF CommandFlushes
<1>3. /\ ListOf(Job, summed) /\ OneToAnId(summed) /\ DOMAIN cli = Commands /\ \A q \in Commands : CliOf(cli[q])
      /\ clean => CleanOf(cli, file, summed)
    BY DEF CronInv, FileInv
<1>4. /\ DOMAIN c = Commands /\ \A q \in Commands \ {p} : c[q] = cli[q]
      /\ CliOf(c[p]) /\ c[p].pc = "flushed" /\ c[p].command = cli[p].command /\ c[p].store = cli[p].store
    BY <1>1, <1>3 DEF CliOf
<1>5. ASSUME clean, NEW f PROVE CleanOf(c, f, summed)
  <2>1. CleanOf(cli, file, summed)
      BY <1>3, <1>5
  <2>2. \A q \in Commands : q # p => c[q].pc = "idle"
      BY <1>2, <1>4, <2>1 DEF CleanOf
  <2>3. c[p].store = Edit(summed, c[p].command)
      BY <1>2, <1>4, <2>1 DEF CleanOf
  <2> QED
      BY <1>4, <2>2, <2>3 DEF CleanOf
<1>6. FileOf(file')
  <2>1. CASE file' = Torn
      BY <2>1 DEF FileOf, Torn, ListOf
  <2>2. CASE file' # Torn
    <3>1. PICK n \in 0..Len(cli[p].store) : file' = [lines |-> SubSeq(cli[p].store, 1, n), ok |-> TRUE]
        BY <2>2 DEF CommandFlushes
    <3>2. PICK s, t : s = cli[p].store /\ t = SubSeq(s, 1, n)
        OBVIOUS
    <3>3. ListOf(Job, s)
        BY <1>3, <3>2 DEF CliOf
    <3>4. Len(s) \in Nat /\ \A i \in 1..Len(s) : s[i] \in Job
        BY <3>3, ListHas
    <3>5. PICK a, b \in Int : a = 1 /\ b = n
        BY <3>2, <3>4
    <3>6. \A i \in a..b : s[i] \in Job
        BY <3>2, <3>4, <3>5
    <3>7. SubSeq(s, a, b) \in Seq(Job)
        BY <3>6, SubSeqProperties
    <3>8. ListOf(Job, t)
        BY <3>2, <3>5, <3>7 DEF ListOf
    <3> QED
        BY <3>1, <3>2, <3>8 DEF FileOf
  <2> QED
      BY <2>1, <2>2
<1>7. FileInv'
  <2>1. ListOf(Job, summed') /\ OneToAnId(summed')
      BY <1>2, <1>3
  <2>2. DOMAIN cli' = Commands /\ \A q \in Commands : CliOf(cli'[q])
      BY <1>2, <1>3, <1>4
  <2>3. clean' => CleanOf(cli', file', summed')
      BY <1>2, <1>5
  <2> QED
      BY <1>6, <2>1, <2>2, <2>3 DEF FileInv
<1> QED
    BY <1>2, <1>7, CommandFrame

(* It has written all, and what it wrote is read back as it was.           *)
LEMMA ClosesHolds ==
    ASSUME CronInv, NEW p \in Commands, CommandCloses(p)
    PROVE  CronInv'
<1>1. PICK c, s : c = [cli EXCEPT ![p] = Idle] /\ s = cli[p].store
    OBVIOUS
<1>2. /\ cli[p].pc \in {"writing", "flushed"} /\ cli' = c
      /\ file' = [lines |-> s, ok |-> TRUE] \/ (~clean /\ file' = Torn)
      /\ summed' = IF clean THEN Edit(summed, cli[p].command) ELSE <<>>
      /\ UNCHANGED clean /\ UNCHANGED <<time, mem, pass, wins, slipped>>
    BY <1>1 DEF CommandCloses
<1>3. /\ ListOf(Job, summed) /\ OneToAnId(summed) /\ DOMAIN cli = Commands /\ \A q \in Commands : CliOf(cli[q])
      /\ clean => CleanOf(cli, file, summed)
    BY DEF CronInv, FileInv
<1>4. ListOf(Job, s) /\ OneToAnId(s)
    BY <1>1, <1>3 DEF CliOf
<1>5. ListOf(Job, <<>>) /\ OneToAnId(<<>>)
    BY DEF ListOf, OneToAnId
<1>6. /\ DOMAIN c = Commands /\ c[p] = Idle /\ \A q \in Commands \ {p} : c[q] = cli[q]
    BY <1>1, <1>3
<1>7. CliOf(Idle) /\ Idle.pc = "idle"
    BY <1>5 DEF CliOf, Idle
<1>8. clean => summed' = s
    BY <1>1, <1>2, <1>3 DEF CleanOf
<1>9. FileOf(file')
    BY <1>2, <1>4, <1>5 DEF FileOf, Torn
<1>10. ASSUME clean PROVE CleanOf(c, file', summed')
  <2>1. file' = [lines |-> s, ok |-> TRUE] /\ summed' = s
      BY <1>2, <1>8, <1>10
  <2>2. file'.ok /\ file'.lines = s
      BY <2>1
  <2>3. Load(s) = s
      BY <1>4, LoadSame
  <2>4. \A q \in Commands : c[q].pc = "idle"
      BY <1>2, <1>3, <1>6, <1>7, <1>10 DEF CleanOf
  <2> QED
      BY <2>1, <2>2, <2>3, <2>4 DEF CleanOf
<1>11. FileInv'
  <2>1. ListOf(Job, summed') /\ OneToAnId(summed')
      BY <1>2, <1>4, <1>5, <1>8
  <2>2. DOMAIN cli' = Commands /\ \A q \in Commands : CliOf(cli'[q])
      BY <1>2, <1>3, <1>6, <1>7
  <2>3. clean' => CleanOf(cli', file', summed')
      BY <1>2, <1>10
  <2> QED
      BY <1>9, <2>1, <2>2, <2>3 DEF FileInv
<1> QED
    BY <1>2, <1>11, CommandFrame

(* It ends on the way.                                                     *)
LEMMA DiesHolds ==
    ASSUME CronInv, NEW p \in Commands, CommandDies(p)
    PROVE  CronInv'
<1>1. PICK c : c = [cli EXCEPT ![p] = Idle]
    OBVIOUS
<1>2. /\ cli[p].pc # "idle" /\ cli' = c /\ clean' = (clean /\ cli[p].pc = "loaded")
      /\ UNCHANGED <<file, summed>> /\ UNCHANGED <<time, mem, pass, wins, slipped>>
    BY <1>1 DEF CommandDies
<1>3. /\ FileOf(file) /\ ListOf(Job, summed) /\ OneToAnId(summed) /\ DOMAIN cli = Commands /\ \A q \in Commands : CliOf(cli[q])
      /\ clean => CleanOf(cli, file, summed)
    BY DEF CronInv, FileInv
<1>4. ListOf(Job, <<>>) /\ OneToAnId(<<>>)
    BY DEF ListOf, OneToAnId
<1>5. /\ DOMAIN c = Commands /\ c[p] = Idle /\ \A q \in Commands \ {p} : c[q] = cli[q]
    BY <1>1, <1>3
<1>6. CliOf(Idle) /\ Idle.pc = "idle"
    BY <1>4 DEF CliOf, Idle
<1>7. ASSUME clean, cli[p].pc = "loaded" PROVE CleanOf(c, file, summed)
  <2>1. CleanOf(cli, file, summed)
      BY <1>3, <1>7
  <2>2. \A q \in Commands : cli[q].pc \notin {"writing", "flushed"}
      BY <1>7, <2>1 DEF CleanOf
  <2>3. file.ok /\ Load(file.lines) = summed
      BY <2>1, <2>2 DEF CleanOf
  <2>4. \A q \in Commands : c[q].pc = "idle"
      BY <1>2, <1>5, <1>6, <2>1 DEF CleanOf
  <2> QED
      BY <2>3, <2>4 DEF CleanOf
<1>8. FileInv'
  <2>1. FileOf(file') /\ ListOf(Job, summed') /\ OneToAnId(summed')
      BY <1>2, <1>3
  <2>2. DOMAIN cli' = Commands /\ \A q \in Commands : CliOf(cli'[q])
      BY <1>2, <1>3, <1>5, <1>6
  <2>3. clean' => CleanOf(cli', file', summed')
      BY <1>2, <1>7
  <2> QED
      BY <2>1, <2>2, <2>3 DEF FileInv
<1> QED
    BY <1>2, <1>8, CommandFrame

(* A step that ends the daemon.                                            *)
LEMMA GoesHolds ==
    ASSUME CronInv, Gone, UNCHANGED <<time, disk>>
    PROVE  CronInv'
<1>1. DaemonInv'
    BY GoneHolds
<1>2. ClockInv'
    BY DEF CronInv, ClockInv, time
<1> QED
    BY <1>1, <1>2, FileFrame DEF CronInv

(* Every step keeps the invariant.                                         *)
LEMMA CronStep ==
    ASSUME CronAssumption, CronInv, [CronNext]_cronVars
    PROVE  CronInv'
<1>1. CASE ClockAdvances
  <2>1. /\ wallClock < MaxInstant /\ wallClock' = wallClock + 1 /\ UNCHANGED <<nanocron, now>>
        /\ UNCHANGED <<mem, pass, disk, wins, slipped>>
      BY <1>1 DEF ClockAdvances
  <2>2. DaemonInv'
      BY <2>1, DaemonFrame DEF CronInv
  <2>3. ClockInv'
      BY <2>1 DEF CronInv, ClockInv, CronAssumption
  <2> QED
      BY <2>1, <2>2, <2>3, FileFrame DEF CronInv
<1>2. CASE Daemon
  <2>1. CASE StartDaemon
      BY <2>1, StartHolds
  <2>2. CASE StartFails
    <3>1. UNCHANGED <<time, mem, pass, disk, wins, slipped>>
        BY <2>2 DEF StartFails
    <3>2. FileInv'
        BY <3>1, FileFrame DEF CronInv
    <3> QED
        BY <3>1, <3>2, CommandFrame
  <2>3. CASE Exit \/ ExecuteShell \/ JobFails
    <3>1. Gone /\ UNCHANGED <<time, disk>>
        BY <2>3 DEF Exit, ExecuteShell, JobFails
    <3> QED
        BY <3>1, GoesHolds
  <2>4. CASE CronTick \/ ScanDone
      BY <2>4, TickHolds, ScanDoneHolds
  <2>5. CASE Execute \/ JobSucceeds
      BY <2>5, ExecuteHolds, SucceedsHolds
  <2> QED
      BY <1>2, <2>1, <2>2, <2>3, <2>4, <2>5 DEF Daemon
<1>3. CASE Tool
    BY <1>3, UpsertHolds, RemoveHolds DEF Tool
<1>4. CASE \E p \in Commands : Command(p)
  <2>1. PICK p \in Commands : Command(p)
      BY <1>4
  <2>2. CASE CommandTruncates(p) \/ CommandFlushes(p) \/ CommandCloses(p) \/ CommandDies(p)
      BY <2>2, TruncatesHolds, FlushesHolds, ClosesHolds, DiesHolds
  <2>3. CASE \E id \in Ids : CommandRemoves(p, id)
    <3>1. PICK id \in Ids : Loads(p, [op |-> "remove", id |-> id])
        BY <2>3 DEF CommandRemoves
    <3>2. PICK c : c = [op |-> "remove", id |-> id]
        OBVIOUS
    <3>3. Loads(p, c) /\ ACommand(c)
        BY <3>1, <3>2 DEF ACommand
    <3> QED
        BY <3>3, LoadsHolds
  <2>4. CASE \E id \in Ids : \E s \in Schedules : CommandAdds(p, id, s)
    <3>1. PICK id \in Ids : \E s \in Schedules : CommandAdds(p, id, s)
        BY <2>4
    <3>2. PICK s \in Schedules : Loads(p, [op |-> "add", id |-> id, sched |-> s])
        BY <3>1 DEF CommandAdds
    <3>3. PICK c : c = [op |-> "add", id |-> id, sched |-> s]
        OBVIOUS
    <3>4. Loads(p, c) /\ ACommand(c)
        BY <3>2, <3>3 DEF ACommand
    <3> QED
        BY <3>4, LoadsHolds
  <2> QED
      BY <2>1, <2>2, <2>3, <2>4 DEF Command
<1>5. CASE UNCHANGED cronVars
  <2>1. UNCHANGED <<time, mem, pass, disk, wins, slipped>>
      BY <1>5 DEF cronVars
  <2>2. FileInv'
      BY <2>1, FileFrame DEF CronInv
  <2> QED
      BY <2>1, <2>2, CommandFrame
<1> QED
    BY <1>1, <1>2, <1>3, <1>4, <1>5 DEF CronNext

(* The inductive invariant.                                                *)
LEMMA CronInvHolds == CronSpec => []CronInv
<1> USE CronAssumption
<1> QED
    BY CronStart, CronStep, PTL DEF CronSpec

(* It says what the property says.                                         *)
LEMMA JobsKeptIs ==
    ASSUME CronInv
    PROVE  JobsKept
<1>1. ClockInv /\ DaemonShape /\ DaemonFlags /\ DaemonSound /\ FileInv
    BY DEF CronInv, DaemonInv
<1>2. /\ ListOf(LiveJob, jobs) /\ OneToAnId(jobs)
      /\ \A i \in DOMAIN jobs : jobs[i].num \in DOMAIN wins
      /\ \A i, j \in DOMAIN jobs : jobs[i].num = jobs[j].num => i = j
    BY <1>1 DEF DaemonShape, JobsGood
<1>3. \A i \in DOMAIN jobs : DOMAIN jobs[i] = Fields \cup {"num", "loaded"}
  <2>1. \A job \in LiveJob : DOMAIN job = Fields \cup {"num", "loaded"}
      BY DEF LiveJob, Fields
  <2>2. \A i \in DOMAIN jobs : jobs[i] \in LiveJob
      BY <1>2, ListHas
  <2> QED
      BY <2>1, <2>2
<1>4. \A i \in DOMAIN file.lines : DOMAIN file.lines[i] = Fields
  <2>1. \A job \in Job : DOMAIN job = Fields
      BY DEF Job, Fields
  <2>2. PICK ls : ls = file.lines /\ ListOf(Job, ls)
      BY <1>1 DEF FileInv, FileOf
  <2>3. \A i \in DOMAIN ls : ls[i] \in Job
      BY <2>2, ListHas
  <2> QED
      BY <2>1, <2>2, <2>3
<1>5. \A p \in Commands : cli[p].pc \in {"idle", "loaded", "writing", "flushed"}
    BY <1>1 DEF FileInv, CliOf
<1>6. /\ nanocron \in BOOLEAN /\ wallClock \in 1..MaxInstant /\ now <= wallClock
      /\ Len(jobs) <= cap /\ (jobs # <<>> => up) /\ (armed => up)
      /\ stage \in {"idle", "scan", "turn"} /\ (stage = "turn" <=> exec # 0)
    BY <1>1 DEF ClockInv, DaemonShape, DaemonFlags
<1>7. \A i, j \in DOMAIN jobs : (jobs[i].id = jobs[j].id \/ jobs[i].num = jobs[j].num) => i = j
    BY <1>2 DEF OneToAnId
<1>8. CronTypeOK
    BY <1>2, <1>3, <1>4, <1>5, <1>6, <1>7 DEF CronTypeOK
<1>9. OnceJobs
    BY <1>1 DEF DaemonSound, OnceGood, OnceJobs
<1>10. FileHoldsAcked
    BY <1>1 DEF FileInv, CleanOf, FileHoldsAcked
<1> QED
    BY <1>8, <1>9, <1>10 DEF JobsKept

(* No job is lost or run twice (sc_cron_job_store_put, sc_cron_job_execute,*)
(* app_cron.c): a job marked once succeeds at most once in the daemon's    *)
(* life, and commands that do not overlap and do not die while they write  *)
(* add up in the file, for any jobs, schedules, commands and capacities.   *)
THEOREM JobsKeptHolds == CronSpec => []JobsKept
<1>1. CronInv => JobsKept
    BY JobsKeptIs
<1> QED
    BY <1>1, CronInvHolds, PTL

(* run_cron_due_jobs runs every job that is due at the instant it read, as *)
(* long as no turn moved the vector or removed a job, and but for a job    *)
(* put in the place of one already passed.                                 *)
THEOREM PassRunsAllDueHolds == CronSpec => PassRunsAllDue
<1>1. ASSUME CronInv, [CronNext]_cronVars
      PROVE  [PassEnds /\ ~slipped =>
                \A i \in DOMAIN jobs :
                    IsDue(jobs[i], now) /\ jobs[i].num \notin swapped => jobs[i].num \in ran]_cronVars
  <2> SUFFICES ASSUME PassEnds, ~slipped, NEW i \in DOMAIN jobs, IsDue(jobs[i], now), jobs[i].num \notin swapped
               PROVE  jobs[i].num \in ran
      OBVIOUS
  <2>1. stage = "scan" /\ stage' = "idle" /\ up'
      BY DEF PassEnds
  <2>2. ScanDone
    <3>1. ~ (Gone \/ UNCHANGED <<stage, slot>>)
        BY <2>1 DEF Gone
    <3>2. ~ClockAdvances /\ ~(UNCHANGED cronVars)
        BY <2>1 DEF ClockAdvances, pass, cronVars
    <3>3. ~Tool
        BY <2>1 DEF Tool, ToolUpsert, ToolRemove, ToolRuns
    <3>4. ~ \E p \in Commands : Command(p)
        BY <2>1 DEF Command, CommandTruncates, CommandFlushes, CommandCloses, CommandDies, CommandRemoves, CommandAdds,
                    Loads, pass
    <3>5. ~ (StartDaemon \/ StartFails \/ CronTick \/ Execute \/ JobSucceeds)
        BY <2>1 DEF StartDaemon, StartFails, CronTick, Execute, JobSucceeds, pass
    <3>6. ~ (Exit \/ ExecuteShell \/ JobFails)
        BY <3>1 DEF Exit, ExecuteShell, JobFails
    <3> QED
        BY <1>1, <3>2, <3>3, <3>4, <3>5, <3>6 DEF CronNext, Daemon
  <2>3. /\ DueSlots = {j \in DOMAIN jobs : j >= slot /\ jobs[j] \in DueNow}
        /\ DOMAIN jobs = 1..Len(jobs) /\ Len(jobs) \in Nat
        /\ \A j \in DOMAIN jobs : jobs[j] \in LiveJob
      BY <1>1, DueSlotsAre
  <2>4. PassedGood(jobs, slot, DueNow, swapped, ran) /\ slot \in Nat
      BY <1>1, <2>1 DEF CronInv, DaemonInv, DaemonShape, DaemonSound
  <2>5. jobs[i] \in DueNow
      BY <2>3 DEF DueNow
  <2>6. ~(i >= slot)
      BY <2>2, <2>3, <2>5 DEF ScanDone
  <2>7. i < slot
      BY <2>3, <2>4, <2>6
  <2> QED
      BY <2>4, <2>5, <2>7 DEF PassedGood
<1> QED
    BY <1>1, CronInvHolds, PTL DEF CronSpec, PassRunsAllDue
=============================================================================
