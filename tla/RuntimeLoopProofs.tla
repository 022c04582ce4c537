-------------------------- MODULE RuntimeLoopProofs --------------------------
(***************************************************************************)
(* Proofs about RuntimeLoop, for any set of tasks, any set of setups and   *)
(* either order of libuv's phases, and about Boot, for any configurations. *)
(*                                                                         *)
(* The inductive invariant of the loop adds two facts to the properties: a *)
(* shutdown request leaves no listed task (so add_task is the only way to  *)
(* arm a timer, and it refuses), and whatever ran a cleanup phase or       *)
(* handled a graceful signal has made that request.                        *)
(*                                                                         *)
(* For the bootstrap one must know that what exists is what boot_owned     *)
(* holds, with the configuration and the secret store beside it; that the  *)
(* provider is either the only handle or an object of its own; and, while  *)
(* all is taken down, that what exists is what is left to destroy, in the  *)
(* order of the ranks of boot_owned_clear.  An object calls only into      *)
(* objects of a higher rank, so it is gone before any of them.             *)
(***************************************************************************)
EXTENDS RuntimeLoop, Boot, SequenceTheorems, FiniteSetTheorems, TLAPS

(* What has happened once the token is cancelled, and what cancelled it. *)
StopInv ==
    /\ token => list = {}
    /\ cleanup # <<>> => token
    /\ (signalled /\ ~setup.hard) => token

(* A task fires no more often than the loop counts. *)
CountInv == \A t \in Tasks : ran[t] <= iter

LoopInv ==
    /\ TypeOK
    /\ HandleSound
    /\ ListIsArmed
    /\ StopInv
    /\ CountInv

-----------------------------------------------------------------------------
(* The effects on the task variables that several actions share. *)

(* runtime_loop_stop_all keeps the handles sound and empties the list. *)
LEMMA StopAllKeeps ==
    ASSUME TypeOK, HandleSound, ListIsArmed, StopAll
    PROVE  /\ list' = {} /\ list' \subseteq Tasks
           /\ tstate' \in [Tasks -> {"none", "armed", "closing", "freed"}]
           /\ linked' \in [Tasks -> BOOLEAN]
           /\ handle' \in [Tasks -> {"none", "active", "idle", "freed"}]
           /\ HandleSound' /\ ListIsArmed'
<1>1. tstate' \in [Tasks -> {"none", "armed", "closing", "freed"}]
    BY DEF TypeOK, StopAll
<1>2. \A t \in Tasks : tstate'[t] = IF t \in list /\ tstate[t] = "armed" THEN "closing" ELSE tstate[t]
    BY DEF StopAll
<1>3. linked' = linked /\ handle' = handle /\ list' = {}
    BY DEF StopAll
<1>4. HandleSound'
    BY <1>2, <1>3 DEF HandleSound
<1>5. \A t \in Tasks : tstate'[t] # "armed"
    BY <1>2 DEF ListIsArmed, Armed
<1>6. ListIsArmed'
    BY <1>3, <1>5 DEF ListIsArmed, Armed
<1> QED
    BY <1>1, <1>3, <1>4, <1>6 DEF TypeOK

(* sc_runtime_loop_request_shutdown, first or repeated. *)
LEMMA RequestStopKeeps ==
    ASSUME TypeOK, HandleSound, ListIsArmed, StopInv,
           NEW where \in {"poll", "timers"}, RequestStop(where)
    PROVE  /\ list' = {} /\ list' \subseteq Tasks
           /\ tstate' \in [Tasks -> {"none", "armed", "closing", "freed"}]
           /\ linked' \in [Tasks -> BOOLEAN]
           /\ handle' \in [Tasks -> {"none", "active", "idle", "freed"}]
           /\ HandleSound' /\ ListIsArmed'
           /\ token' = TRUE /\ stop' = where
<1>1. CASE token
    BY <1>1 DEF RequestStop, taskVars, TypeOK, HandleSound, ListIsArmed, Armed, StopInv
<1>2. CASE ~token
    BY <1>2, StopAllKeeps DEF RequestStop
<1> QED
    BY <1>1, <1>2

(* runtime_loop_remove_task, with the links to its handle left alone or cut. *)
LEMMA RemoveTaskKeeps ==
    ASSUME TypeOK, HandleSound, ListIsArmed, NEW t \in Tasks, RemoveTask(t)
    PROVE  /\ list' \subseteq list
           /\ tstate' \in [Tasks -> {"none", "armed", "closing", "freed"}]
           /\ ListIsArmed'
           /\ \A u \in Tasks : tstate[u] \in {"armed", "closing"} => tstate'[u] \in {"armed", "closing"}
<1>1. CASE t \in list
  <2>1. list' = list \ {t} /\ tstate' = [tstate EXCEPT ![t] = "closing"]
      BY <1>1 DEF RemoveTask
  <2>2. \A u \in Tasks : tstate'[u] = IF u = t THEN "closing" ELSE tstate[u]
      BY <2>1 DEF TypeOK
  <2>3. ListIsArmed'
      BY <2>1, <2>2 DEF ListIsArmed, Armed
  <2> QED
      BY <2>1, <2>2, <2>3 DEF TypeOK
<1>2. CASE t \notin list
    BY <1>2 DEF RemoveTask, TypeOK, ListIsArmed, Armed
<1> QED
    BY <1>1, <1>2

(* sc_runtime_timer_cancel and sc_runtime_timer_destroy. *)
LEMMA CancelHandleKeeps ==
    ASSUME TypeOK, HandleSound, ListIsArmed, NEW t \in Tasks,
           NEW state \in {"idle", "freed"}, CancelHandle(t, state)
    PROVE  /\ list' \subseteq list
           /\ tstate' \in [Tasks -> {"none", "armed", "closing", "freed"}]
           /\ linked' \in [Tasks -> BOOLEAN]
           /\ handle' \in [Tasks -> {"none", "active", "idle", "freed"}]
           /\ HandleSound' /\ ListIsArmed'
<1>1. /\ handle' \in [Tasks -> {"none", "active", "idle", "freed"}]
      /\ \A u \in Tasks : handle'[u] = IF u = t THEN state ELSE handle[u]
    BY DEF CancelHandle, TypeOK
<1>2. CASE handle[t] = "active"
  <2>1. linked' = [linked EXCEPT ![t] = FALSE] /\ RemoveTask(t)
      BY <1>2 DEF CancelHandle
  <2>2. linked' \in [Tasks -> BOOLEAN] /\ \A u \in Tasks : linked'[u] = IF u = t THEN FALSE ELSE linked[u]
      BY <2>1 DEF TypeOK
  <2>3. /\ list' \subseteq list
        /\ tstate' \in [Tasks -> {"none", "armed", "closing", "freed"}]
        /\ ListIsArmed'
        /\ \A u \in Tasks : tstate[u] \in {"armed", "closing"} => tstate'[u] \in {"armed", "closing"}
      BY <2>1, RemoveTaskKeeps
  <2>4. HandleSound'
      BY <1>1, <2>2, <2>3 DEF HandleSound
  <2> QED
      BY <1>1, <2>2, <2>3, <2>4
<1>3. CASE handle[t] # "active"
  <2>1. linked' = linked /\ list' = list /\ tstate' = tstate
      BY <1>3 DEF CancelHandle
  <2>2. HandleSound'
      BY <1>1, <1>3, <2>1 DEF HandleSound
  <2> QED
      BY <1>1, <2>1, <2>2 DEF TypeOK, ListIsArmed, Armed
<1> QED
    BY <1>2, <1>3

(* runtime_loop_task_destroy for closing tasks, or for all when the loop is destroyed. *)
LEMMA FreeKeeps ==
    ASSUME TypeOK, HandleSound, NEW ts \in SUBSET Tasks, Free(ts)
    PROVE  /\ tstate' \in [Tasks -> {"none", "armed", "closing", "freed"}]
           /\ linked' \in [Tasks -> BOOLEAN]
           /\ handle' \in [Tasks -> {"none", "active", "idle", "freed"}]
           /\ HandleSound'
           /\ Armed' = Armed \ ts
<1>1. \A t \in Tasks : tstate'[t] = IF t \in ts THEN "freed" ELSE tstate[t]
    BY DEF Free
<1>2. \A t \in Tasks : handle'[t] = IF t \in ts /\ linked[t] THEN "idle" ELSE handle[t]
    BY DEF Free
<1>3. \A t \in Tasks : linked'[t] = IF t \in ts THEN FALSE ELSE linked[t]
    BY DEF Free
<1>4. tstate' \in [Tasks -> {"none", "armed", "closing", "freed"}]
    BY DEF Free, TypeOK
<1>5. linked' \in [Tasks -> BOOLEAN]
    BY DEF Free, TypeOK
<1>6. handle' \in [Tasks -> {"none", "active", "idle", "freed"}]
    BY DEF Free, TypeOK
<1>7. HandleSound'
    BY <1>1, <1>2, <1>3 DEF HandleSound, TypeOK
<1>8. Armed' = Armed \ ts
    BY <1>1 DEF Armed
<1> QED
    BY <1>4, <1>5, <1>6, <1>7, <1>8

-----------------------------------------------------------------------------
LEMMA LoopInit == ASSUME Init PROVE LoopInv
<1> USE DEF Init
<1>1. TypeOK
  <2>1. linked \in [Tasks -> BOOLEAN]
      OBVIOUS
  <2>2. tstate \in [Tasks -> {"none", "armed", "closing", "freed"}]
      OBVIOUS
  <2>3. handle \in [Tasks -> {"none", "active", "idle", "freed"}]
      OBVIOUS
  <2>4. iter \in 0..MaxFires /\ ran \in [Tasks -> 0..MaxFires] /\ shutdowns \in 0..MaxShutdowns
      BY LoopAssumption
  <2>5. cleanup \in Seq(CleanupSteps)
      OBVIOUS
  <2> QED
      BY <2>1, <2>2, <2>3, <2>4, <2>5 DEF TypeOK, Phases
<1>2. HandleSound /\ ListIsArmed /\ CountInv
    BY DEF HandleSound, ListIsArmed, Armed, CountInv
<1>3. StopInv
    BY DEF StopInv
<1> QED
    BY <1>1, <1>2, <1>3 DEF LoopInv

(* Every step keeps the invariant: one case per action. *)
LEMMA LoopStep == ASSUME LoopInv, [Next]_vars PROVE LoopInv'
<1> USE DEF LoopInv
<1>1. ASSUME NEW t \in Tasks, AddTask(t) PROVE LoopInv'
  <2>1. \A u \in Tasks : /\ tstate'[u] = IF u = t THEN "armed" ELSE tstate[u]
                         /\ linked'[u] = IF u = t THEN (t \in setup.timed) ELSE linked[u]
                         /\ handle'[u] = IF u = t THEN (IF t \in setup.timed THEN "active" ELSE "none")
                                                  ELSE handle[u]
      BY <1>1 DEF AddTask, TypeOK
  <2>2. TypeOK'
      BY <1>1 DEF AddTask, TypeOK, runVars, endVars
  <2>3. HandleSound'
      BY <2>1 DEF HandleSound
  <2>4. ListIsArmed'
      BY <1>1, <2>1 DEF AddTask, ListIsArmed, Armed
  <2>5. StopInv' /\ CountInv'
      BY <1>1 DEF AddTask, StopInv, CountInv, runVars, endVars
  <2> QED
      BY <2>2, <2>3, <2>4, <2>5
<1>2. ASSUME NEW t \in Tasks, TimerCancel(t) PROVE LoopInv'
  <2>1. CancelHandle(t, "idle") /\ UNCHANGED <<phase, token, stop, cur, runVars, endVars>>
      BY <1>2 DEF TimerCancel
  <2> QED
      BY <2>1, CancelHandleKeeps DEF TypeOK, StopInv, CountInv, runVars, endVars
<1>3. ASSUME NEW t \in Tasks, TimerDestroy(t) PROVE LoopInv'
  <2>1. CancelHandle(t, "freed") /\ UNCHANGED <<phase, token, stop, cur, runVars, endVars>>
      BY <1>3 DEF TimerDestroy
  <2> QED
      BY <2>1, CancelHandleKeeps DEF TypeOK, StopInv, CountInv, runVars, endVars
<1>4. CASE RequestShutdown
  <2>1. /\ RequestStop(StopHere) /\ StopHere \in {"poll", "timers"}
        /\ UNCHANGED <<phase, cur, runVars, endVars>>
      BY <1>4 DEF RequestShutdown, StopHere
  <2> QED
      BY <2>1, RequestStopKeeps DEF TypeOK, StopInv, CountInv, runVars, endVars
<1>5. CASE RunStart
    BY <1>5 DEF RunStart, taskVars, runVars, endVars, TypeOK, Phases, HandleSound, ListIsArmed,
                Armed, StopInv, CountInv
<1>6. ASSUME NEW t \in Tasks, TimerFire(t) PROVE LoopInv'
  <2>1. iter' = iter + 1 /\ iter' \in 0..MaxFires
      BY <1>6, LoopAssumption DEF TimerFire, TypeOK
  <2>2. \A u \in Tasks : ran'[u] = IF u = t THEN ran[t] + 1 ELSE ran[u]
      BY <1>6 DEF TimerFire, TypeOK
  <2>3. CountInv'
      BY <2>1, <2>2 DEF CountInv, TypeOK
  <2>4. \A u \in Tasks : ran'[u] \in 0..MaxFires
      BY <2>1, <2>2, LoopAssumption DEF CountInv, TypeOK
  <2>5. ran' \in [Tasks -> 0..MaxFires]
      BY <1>6, <2>4 DEF TimerFire, TypeOK
  <2>6. TypeOK'
      BY <1>6, <2>1, <2>5 DEF TimerFire, TypeOK, taskVars, endVars
  <2>7. HandleSound' /\ ListIsArmed' /\ StopInv'
      BY <1>6 DEF TimerFire, HandleSound, ListIsArmed, Armed, StopInv, taskVars, endVars
  <2> QED
      BY <2>3, <2>6, <2>7
<1>7. ASSUME NEW t \in Tasks, CloseCb(t) PROVE LoopInv'
  <2>1. /\ Free({t}) /\ tstate[t] = "closing"
        /\ UNCHANGED <<phase, list, token, stop, cur, runVars, endVars>>
      BY <1>7 DEF CloseCb
  <2>2. ListIsArmed'
      BY <2>1, FreeKeeps DEF ListIsArmed, Armed
  <2> QED
      BY <2>1, <2>2, FreeKeeps DEF TypeOK, StopInv, CountInv, runVars, endVars
<1>8. CASE TaskError
  <2>1. StopAll
      BY <1>8 DEF TaskError
  <2> QED
      BY <1>8, <2>1, StopAllKeeps DEF TaskError, TypeOK, StopInv, CountInv, endVars
<1>9. CASE TaskOk
  <2>1. CASE LimitReached
    <3>1. RequestStop("timers")
        BY <1>9, <2>1 DEF TaskOk
    <3> QED
        BY <1>9, <3>1, RequestStopKeeps DEF TaskOk, TypeOK, StopInv, CountInv, endVars
  <2>2. CASE ~LimitReached
    <3>1. cur \in Tasks /\ UNCHANGED <<linked, handle, token, stop>>
        BY <1>9, <2>2 DEF TaskOk
    <3>2. CASE RemoveTask(cur)
      <4>1. HandleSound'
          BY <3>1, <3>2, RemoveTaskKeeps DEF HandleSound
      <4> QED
          BY <1>9, <3>1, <3>2, <4>1, RemoveTaskKeeps DEF TaskOk, TypeOK, StopInv, CountInv, endVars
    <3>3. CASE UNCHANGED <<list, tstate>>
        BY <1>9, <3>1, <3>3 DEF TaskOk, TypeOK, HandleSound, ListIsArmed, Armed, StopInv, CountInv, endVars
    <3> QED
        BY <1>9, <2>2, <3>2, <3>3 DEF TaskOk
  <2> QED
      BY <2>1, <2>2
<1>10. CASE Signal
  <2>1. CASE setup.hard /\ StopAll /\ stop' = "poll" /\ UNCHANGED <<token, status>>
      BY <1>10, <2>1, StopAllKeeps DEF Signal, TypeOK, StopInv, CountInv, endVars
  <2>2. CASE ~setup.hard /\ RequestStop("poll") /\ status' = "ok"
      BY <1>10, <2>2, RequestStopKeeps DEF Signal, TypeOK, StopInv, CountInv, endVars
  <2> QED
      BY <1>10, <2>1, <2>2 DEF Signal
<1>11. CASE IoStart
    BY <1>11 DEF IoStart, taskVars, endVars, TypeOK, HandleSound, ListIsArmed, Armed, StopInv, CountInv
<1>12. CASE IoCallback
    BY <1>12 DEF IoCallback, taskVars, runVars, endVars, TypeOK, HandleSound, ListIsArmed, Armed,
                 StopInv, CountInv
<1>13. CASE IoReturn
    BY <1>13 DEF IoReturn, taskVars, endVars, TypeOK, HandleSound, ListIsArmed, Armed, StopInv, CountInv
<1>14. CASE RunStops
    BY <1>14 DEF RunStops, taskVars, endVars, TypeOK, Phases, HandleSound, ListIsArmed, Armed,
                 StopInv, CountInv
<1>15. CASE DrainAgain
    BY <1>15 DEF DrainAgain, taskVars, runVars, endVars, TypeOK, HandleSound, ListIsArmed, Armed,
                 StopInv, CountInv
<1>16. CASE RunReturns
    BY <1>16 DEF RunReturns, taskVars, runVars, endVars, TypeOK, Phases, HandleSound, ListIsArmed,
                 Armed, StopInv, CountInv
<1>17. ASSUME NEW hard \in BOOLEAN, Shutdown(hard) PROVE LoopInv'
  <2>1. shutdowns' \in 0..MaxShutdowns
      BY <1>17, LoopAssumption DEF Shutdown, TypeOK
  <2>2. UNCHANGED <<setup, phase, cur, runVars>>
      BY <1>17 DEF Shutdown
  <2>3. CASE completed
      BY <1>17, <2>1, <2>2, <2>3 DEF Shutdown, taskVars, runVars, TypeOK, HandleSound, ListIsArmed,
                                    Armed, StopInv, CountInv
  <2>4. CASE ~completed
    <3>1. RequestStop(StopHere) /\ StopHere \in {"poll", "timers"}
        BY <1>17, <2>4 DEF Shutdown, StopHere
    <3>2. PICK n \in 1..Len(CleanupPlan(hard)), ok \in BOOLEAN :
             /\ cleanup' = cleanup \o SubSeq(CleanupPlan(hard), 1, n)
             /\ completed' = ok
        BY <1>17, <2>4 DEF Shutdown
    <3>3. cleanup' \in Seq(CleanupSteps)
      <4>1. CleanupPlan(hard) \in Seq(CleanupSteps)
        <5>1. CASE hard
          <6>1. <<"close", "destroy">> \in Seq(CleanupSteps)
              BY DEF CleanupSteps
          <6> QED
              BY <5>1, <6>1 DEF CleanupPlan
        <5>2. CASE ~hard
          <6>1. <<"drain", "flush", "close", "destroy">> \in Seq(CleanupSteps)
              BY DEF CleanupSteps
          <6> QED
              BY <5>2, <6>1 DEF CleanupPlan
        <5> QED
            BY <5>1, <5>2
      <4>2. SubSeq(CleanupPlan(hard), 1, n) \in Seq(CleanupSteps)
          BY <4>1, <3>2
      <4> QED
          BY <3>2, <4>2 DEF TypeOK
    <3> QED
        BY <2>1, <2>2, <3>1, <3>2, <3>3, RequestStopKeeps DEF TypeOK, StopInv, CountInv, runVars
  <2> QED
      BY <2>3, <2>4
<1>18. CASE LoopDestroy
  <2> DEFINE ts == {t \in Tasks : tstate[t] \in {"armed", "closing"}}
  <2>1. Free(ts) /\ list' = {} /\ phase' = "destroyed" /\ UNCHANGED <<token, stop, cur, runVars, endVars>>
      BY <1>18 DEF LoopDestroy
  <2>2. Armed \ ts = {}
      BY DEF Armed
  <2> HIDE DEF ts
  <2>3. ts \in SUBSET Tasks
      BY DEF ts
  <2>4. ListIsArmed'
      BY <2>1, <2>2, <2>3, FreeKeeps DEF ListIsArmed
  <2> QED
      BY <2>1, <2>3, <2>4, FreeKeeps DEF TypeOK, Phases, StopInv, CountInv, runVars, endVars
<1>19. CASE UNCHANGED vars
    BY <1>19 DEF vars, taskVars, runVars, endVars, TypeOK, HandleSound, ListIsArmed, Armed,
                 StopInv, CountInv
<1> QED
    BY <1>1, <1>2, <1>3, <1>4, <1>5, <1>6, <1>7, <1>8, <1>9, <1>10, <1>11, <1>12, <1>13, <1>14,
       <1>15, <1>16, <1>17, <1>18, <1>19 DEF Next

-----------------------------------------------------------------------------
(* Timer handles and tasks of src/runtime/loop.c never dangle, the task     *)
(* list is exactly what can still fire, shutdown phases run only after all  *)
(* timers are closed, and no task is scheduled after a graceful signal.     *)
THEOREM LoopCorrect ==
    Spec => [](LoopSound /\ ListIsArmed)
<1>1. Init => LoopInv
    BY LoopInit
<1>2. LoopInv /\ [Next]_vars => LoopInv'
    BY LoopStep
<1>3. LoopInv => CleanupAfterStop /\ NoWorkAfterGracefulSignal
    BY DEF LoopInv, StopInv, CleanupAfterStop, NoWorkAfterGracefulSignal, ListIsArmed
<1>4. LoopInv => LoopSound /\ ListIsArmed
    BY <1>3 DEF LoopInv, LoopSound
<1> QED
    BY <1>1, <1>2, <1>4, PTL DEF Spec

(* After a shutdown request runtime_loop_timer_cb starts no run function. *)
THEOREM NoRunAfterRequestHolds == Spec => NoRunAfterRequest
<1>1. ASSUME LoopInv, [Next]_vars
      PROVE  (cur' \in Tasks /\ cur' # cur) => ~token
  <2> SUFFICES ASSUME cur' \in Tasks, cur' # cur PROVE ~token
      OBVIOUS
  <2>1. PICK t \in Tasks : TimerFire(t)
      BY <1>1, LoopAssumption DEF Next, vars, AddTask, TimerCancel, TimerDestroy, RequestShutdown,
         RunStart, CloseCb, TaskError, TaskOk, Signal, IoStart, IoCallback, IoReturn, RunStops,
         DrainAgain, RunReturns, Shutdown, LoopDestroy
  <2>2. t \in list
      BY <1>1, <2>1 DEF LoopInv, ListIsArmed, Armed, TimerFire
  <2> QED
      BY <1>1, <2>2 DEF LoopInv, StopInv
<1>2. Init => LoopInv
    BY LoopInit
<1>3. LoopInv /\ [Next]_vars => LoopInv'
    BY LoopStep
<1>4. ASSUME LoopInv, [Next]_vars
      PROVE  [(cur' \in Tasks /\ cur' # cur) => ~token]_vars
    BY <1>1, <1>4
<1> QED
    BY <1>2, <1>3, <1>4, PTL DEF Spec, NoRunAfterRequest

(* Where the error of a failed task is until sc_runtime_loop_run returns    *)
(* it: in loop->status with uv_stop pending, then in the result.            *)
ErrorInv ==
    failed =>
        /\ phase # "setup"
        /\ phase = "running" => cur = "nobody" /\ status = "error" /\ stop = "timers"
        /\ phase \in {"draining", "returned", "destroyed"} => runStatus = "error"

(* A failed task's error is what sc_runtime_loop_run returns, for a libuv   *)
(* that polls before it runs timers: no signal can come between the two.    *)
THEOREM ErrorReportedHolds ==
    ASSUME OldLibuv = FALSE
    PROVE  Spec => []ErrorReported
<1>1. Init => ErrorInv
    BY DEF Init, ErrorInv
<1>2. ASSUME LoopInv, ErrorInv, [Next]_vars PROVE ErrorInv'
  <2> USE DEF ErrorInv
  <2>1. ASSUME NEW t \in Tasks, AddTask(t) \/ TimerCancel(t) \/ TimerDestroy(t) PROVE ErrorInv'
      BY <1>2, <2>1 DEF AddTask, TimerCancel, TimerDestroy, runVars
  <2>2. CASE RequestShutdown
      BY <1>2, <2>2 DEF RequestShutdown, CallerRuns, RequestStop, runVars
  <2>3. CASE RunStart
      BY <1>2, <2>3 DEF RunStart, runVars
  <2>4. ASSUME NEW t \in Tasks, TimerFire(t) PROVE ErrorInv'
      BY <1>2, <2>4 DEF TimerFire
  <2>5. ASSUME NEW t \in Tasks, CloseCb(t) PROVE ErrorInv'
      BY <1>2, <2>5 DEF CloseCb, runVars
  <2>6. CASE TaskError
      BY <1>2, <2>6 DEF TaskError
  <2>7. CASE TaskOk
      BY <1>2, <2>7, LoopAssumption DEF TaskOk
  <2>8. CASE Signal
      BY <1>2, <2>8 DEF Signal
  <2>9. CASE IoStart
      BY <1>2, <2>9 DEF IoStart
  <2>10. CASE IoCallback
      BY <1>2, <2>10 DEF IoCallback, runVars
  <2>11. CASE IoReturn
      BY <1>2, <2>11 DEF IoReturn
  <2>12. CASE RunStops
      BY <1>2, <2>12 DEF RunStops
  <2>13. CASE DrainAgain
      BY <1>2, <2>13 DEF DrainAgain, runVars
  <2>14. CASE RunReturns
      BY <1>2, <2>14 DEF RunReturns, runVars
  <2>15. ASSUME NEW hard \in BOOLEAN, Shutdown(hard) PROVE ErrorInv'
      BY <1>2, <2>15 DEF Shutdown, CallerRuns, RequestStop, runVars
  <2>16. CASE LoopDestroy
      BY <1>2, <2>16 DEF LoopDestroy, runVars
  <2>17. CASE UNCHANGED vars
      BY <1>2, <2>17 DEF vars
  <2> QED
      BY <1>2, <2>1, <2>2, <2>3, <2>4, <2>5, <2>6, <2>7, <2>8, <2>9, <2>10, <2>11, <2>12, <2>13,
         <2>14, <2>15, <2>16, <2>17 DEF Next
<1>3. ErrorInv => ErrorReported
    BY DEF ErrorInv, ErrorReported
<1>4. Init => LoopInv
    BY LoopInit
<1>5. LoopInv /\ [Next]_vars => LoopInv'
    BY LoopStep
<1> QED
    BY <1>1, <1>2, <1>3, <1>4, <1>5, PTL DEF Spec
-----------------------------------------------------------------------------
(* The once mode of run_runtime_loop: every task repeats, all of them are   *)
(* added before the run, and max_iterations is their number.                *)
OnceMode ==
    /\ setup.repeating = Tasks
    /\ setup.late = {}
    /\ setup.limit = Cardinality(Tasks)

Fired == {t \in Tasks : ran[t] > 0}

(* A callback is on the stack only inside uv_run, and before the run        *)
(* nothing has fired.                                                       *)
RunningInv ==
    /\ cur # "nobody" => phase \in {"running", "draining"}
    /\ phase = "setup" => iter = 0 /\ \A t \in Tasks : ran[t] = 0

(* In once mode no task has a timer handle; the tasks leave the list all    *)
(* together, and none is added from then on; the loop is stopped when the   *)
(* limit is reached; and once every task has been added, the loop's count   *)
(* is the number of tasks that have run, each of them once.                 *)
OnceCounted ==
    (\A t \in Tasks : tstate[t] # "none")
        => iter = Cardinality(Fired) /\ \A t \in Tasks : ran[t] <= 1

OnceInv ==
    /\ \A t \in Tasks : handle[t] = "none"
    /\ \/ Armed = {} /\ (token \/ phase # "setup")
       \/ \A t \in Tasks : tstate[t] \in {"none", "armed"}
    /\ Armed = {} \/ iter < setup.limit \/ cur \in Tasks
    /\ OnceCounted

LEMMA RunningStep ==
    ASSUME LoopInv, RunningInv, [Next]_vars
    PROVE  RunningInv'
<1> USE DEF RunningInv
<1>1. ASSUME NEW t \in Tasks, AddTask(t) \/ TimerCancel(t) \/ TimerDestroy(t) \/ CloseCb(t)
      PROVE  RunningInv'
    BY <1>1 DEF AddTask, TimerCancel, TimerDestroy, CloseCb, runVars
<1>2. ASSUME NEW t \in Tasks, TimerFire(t) PROVE RunningInv'
    BY <1>2 DEF TimerFire
<1>3. CASE RequestShutdown \/ RunStart \/ IoCallback \/ DrainAgain \/ RunReturns \/ LoopDestroy
    BY <1>3 DEF RequestShutdown, RunStart, IoCallback, DrainAgain, RunReturns, LoopDestroy, runVars
<1>4. CASE TaskError \/ TaskOk \/ Signal \/ IoStart \/ IoReturn \/ RunStops \/ UNCHANGED vars
    BY <1>4 DEF TaskError, TaskOk, Signal, IoStart, IoReturn, RunStops, vars
<1>5. ASSUME NEW hard \in BOOLEAN, Shutdown(hard) PROVE RunningInv'
    BY <1>5 DEF Shutdown, runVars
<1> QED
    BY <1>1, <1>2, <1>3, <1>4, <1>5 DEF Next

(* The loop is never set up again. *)
LEMMA SetupKept == ASSUME [Next]_vars PROVE setup' = setup
<1>1. ASSUME NEW t \in Tasks, AddTask(t) \/ TimerCancel(t) \/ TimerDestroy(t) \/ TimerFire(t) \/ CloseCb(t)
      PROVE  setup' = setup
    BY <1>1 DEF AddTask, TimerCancel, TimerDestroy, TimerFire, CloseCb, endVars
<1>2. ASSUME NEW hard \in BOOLEAN, Shutdown(hard) PROVE setup' = setup
    BY <1>2 DEF Shutdown
<1> QED
    BY <1>1, <1>2 DEF Next, vars, RequestShutdown, RunStart, TaskError, TaskOk, Signal, IoStart,
       IoCallback, IoReturn, RunStops, DrainAgain, RunReturns, LoopDestroy, endVars

(* The count is about what has fired, whatever the timers do meanwhile. *)
LEMMA CountedKept ==
    ASSUME OnceCounted, iter' = iter, ran' = ran,
           \A t \in Tasks : tstate[t] = "none" => tstate'[t] = "none"
    PROVE  OnceCounted'
<1>1. Fired' = Fired
    BY DEF Fired
<1>2. (\A t \in Tasks : tstate'[t] # "none") => (\A t \in Tasks : tstate[t] # "none")
    OBVIOUS
<1> QED
    BY <1>1, <1>2 DEF OnceCounted

(* A stop that closes every listed timer. *)
LEMMA StoppedKeepsOnce ==
    ASSUME LoopInv, LoopInv', OnceInv, list' = {}, handle' = handle, phase' = phase,
           \A t \in Tasks : tstate[t] = "none" => tstate'[t] = "none",
           iter' = iter, ran' = ran, token' \/ phase' # "setup"
    PROVE  OnceInv'
<1>1. Armed' = {}
    BY DEF LoopInv, ListIsArmed
<1>2. OnceCounted'
    BY CountedKept DEF OnceInv
<1> QED
    BY <1>1, <1>2 DEF OnceInv

LEMMA StopAllStates ==
    ASSUME StopAll
    PROVE  /\ list' = {} /\ handle' = handle
           /\ \A t \in Tasks : tstate[t] = "none" => tstate'[t] = "none"
    BY DEF StopAll

LEMMA RequestStopStates ==
    ASSUME LoopInv, NEW where, RequestStop(where)
    PROVE  /\ list' = {} /\ handle' = handle /\ token'
           /\ \A t \in Tasks : tstate[t] = "none" => tstate'[t] = "none"
<1>1. CASE token
    BY <1>1 DEF RequestStop, taskVars, LoopInv, StopInv
<1>2. CASE ~token
    BY <1>2, StopAllStates DEF RequestStop
<1> QED
    BY <1>1, <1>2

(* A step that changes no task, no count and does not leave a task's run    *)
(* function.                                                                *)
LEMMA IdleKeepsOnce ==
    ASSUME OnceInv, UNCHANGED <<setup, taskVars, iter, ran, token>>,
           phase' # "setup" \/ phase' = phase,
           cur \in Tasks => cur' = cur
    PROVE  OnceInv'
<1>1. Armed' = Armed
    BY DEF Armed, taskVars
<1>2. OnceCounted'
    BY CountedKept DEF OnceInv, taskVars
<1> QED
    BY <1>1, <1>2 DEF OnceInv, taskVars

LEMMA OnceStep ==
    ASSUME IsFiniteSet(Tasks), LoopInv, RunningInv, OnceMode, OnceInv, [Next]_vars
    PROVE  OnceInv'
<1>0. LoopInv' /\ setup' = setup
    BY LoopStep, SetupKept
<1>1. Tasks # {} => setup.limit > 0
    BY FS_EmptySet, FS_CardinalityType DEF OnceMode
<1>2. ASSUME NEW t \in Tasks, AddTask(t) PROVE OnceInv'
  <2>1. /\ phase = "setup" /\ ~token /\ UNCHANGED <<phase, token, cur, iter, ran>>
        /\ iter = 0 /\ \A u \in Tasks : ran[u] = 0
      BY <1>2 DEF AddTask, OnceMode, RunningInv, runVars
  <2>2. setup.timed = {}
      BY LoopAssumption DEF LoopInv, TypeOK, IsSetup, OnceMode
  <2>3. \A u \in Tasks : handle'[u] = "none"
      BY <1>2, <2>2 DEF AddTask, OnceInv, LoopInv, TypeOK
  <2>4. \A u \in Tasks : tstate'[u] = IF u = t THEN "armed" ELSE tstate[u]
      BY <1>2 DEF AddTask, LoopInv, TypeOK
  <2>5. \A u \in Tasks : tstate'[u] \in {"none", "armed"}
      BY <2>1, <2>4 DEF OnceInv, Armed
  <2>6. iter' < setup'.limit
      BY <1>0, <1>1, <2>1
  <2>7. Fired' = {}
      BY <2>1 DEF Fired
  <2>8. iter' = Cardinality(Fired') /\ \A u \in Tasks : ran'[u] <= 1
      BY <2>1, <2>7, FS_EmptySet
  <2> QED
      BY <2>3, <2>5, <2>6, <2>8 DEF OnceInv, OnceCounted
<1>3. ASSUME NEW t \in Tasks, TimerCancel(t) \/ TimerDestroy(t) PROVE OnceInv'
    BY <1>3 DEF TimerCancel, TimerDestroy, OnceInv
<1>4. CASE RequestShutdown
  <2>1. /\ RequestStop(StopHere) /\ UNCHANGED <<phase, iter, ran>>
      BY <1>4 DEF RequestShutdown, runVars
  <2> QED
      BY <1>0, <2>1, RequestStopStates, StoppedKeepsOnce
<1>5. CASE RunStart \/ IoCallback \/ DrainAgain \/ RunReturns \/ IoStart \/ IoReturn \/ RunStops \/ UNCHANGED vars
  <2>1. /\ UNCHANGED <<setup, taskVars, iter, ran, token>>
        /\ phase' # "setup" \/ phase' = phase
        /\ cur \in Tasks => cur' = cur
      BY <1>5, LoopAssumption DEF RunStart, IoCallback, DrainAgain, RunReturns, IoStart, IoReturn, RunStops,
         vars, runVars, endVars, taskVars
  <2> QED
      BY <2>1, IdleKeepsOnce
<1>6. ASSUME NEW t \in Tasks, TimerFire(t) PROVE OnceInv'
  <2>1. /\ cur = "nobody" /\ t \in Armed /\ Due(t) /\ cur' = t
        /\ iter' = iter + 1 /\ UNCHANGED <<phase, taskVars, token>> /\ phase # "setup"
      BY <1>6 DEF TimerFire, Armed
  <2>2. \A u \in Tasks : ran'[u] = IF u = t THEN ran[t] + 1 ELSE ran[u]
      BY <1>6 DEF TimerFire, LoopInv, TypeOK
  <2>3. /\ iter < setup.limit /\ \A u \in Tasks : tstate[u] \in {"none", "armed"}
      BY <2>1, LoopAssumption DEF OnceInv
  <2>4. Armed' = Armed
      BY <2>1 DEF Armed, taskVars
  <2>5. ASSUME \A u \in Tasks : tstate[u] # "none"
        PROVE  iter' = Cardinality(Fired') /\ \A u \in Tasks : ran'[u] <= 1
    <3>1. Armed = Tasks /\ iter = Cardinality(Fired) /\ \A u \in Tasks : ran[u] <= 1 /\ ran[u] \in Nat
        BY <2>3, <2>5 DEF Armed, OnceInv, OnceCounted, LoopInv, TypeOK
    <3>2. ran[t] = 0
      <4> SUFFICES ASSUME ran[t] > 0 PROVE FALSE
          BY <3>1
      <4>1. Fired = Tasks
          BY <2>1, <3>1 DEF Due, Fired, OnceMode
      <4> QED
          BY <2>3, <3>1, <4>1 DEF OnceMode, LoopInv, TypeOK
    <3>3. t \notin Fired /\ Fired' = Fired \cup {t}
        BY <2>2, <3>1, <3>2 DEF Fired
    <3>4. IsFiniteSet(Fired)
        BY FS_Subset DEF Fired
    <3>5. Cardinality(Fired') = Cardinality(Fired) + 1
        BY <3>3, <3>4, FS_AddElement
    <3> QED
        BY <2>1, <2>2, <3>1, <3>2, <3>5
  <2>6. (\A u \in Tasks : tstate'[u] # "none") => (\A u \in Tasks : tstate[u] # "none")
      BY <2>1 DEF taskVars
  <2> QED
      BY <2>1, <2>3, <2>4, <2>5, <2>6 DEF OnceInv, OnceCounted, taskVars
<1>7. ASSUME NEW t \in Tasks, CloseCb(t) PROVE OnceInv'
  <2>1. /\ Free({t}) /\ tstate[t] = "closing" /\ phase # "setup"
        /\ UNCHANGED <<phase, token, cur, iter, ran>>
      BY <1>7 DEF CloseCb, runVars
  <2>2. \A u \in Tasks : handle'[u] = "none"
      BY <2>1 DEF Free, OnceInv, LoopInv, HandleSound
  <2>3. Armed = {} /\ Armed' = {}
      BY <2>1, FreeKeeps DEF OnceInv, LoopInv, Armed
  <2>4. \A u \in Tasks : tstate[u] = "none" => tstate'[u] = "none"
      BY <2>1 DEF Free
  <2>5. OnceCounted'
      BY <2>1, <2>4, CountedKept DEF OnceInv
  <2> QED
      BY <2>1, <2>2, <2>3, <2>4, <2>5 DEF OnceInv
<1>8. CASE TaskError
  <2>1. StopAll /\ cur \in setup.mayFail /\ UNCHANGED <<phase, iter, ran>>
      BY <1>8 DEF TaskError
  <2>2. phase # "setup"
      BY <2>1, LoopAssumption DEF LoopInv, TypeOK, IsSetup, RunningInv
  <2> QED
      BY <1>0, <2>1, <2>2, StopAllStates, StoppedKeepsOnce
<1>9. CASE TaskOk
  <2>1. cur \in Tasks /\ UNCHANGED <<setup, phase, iter, ran>>
      BY <1>0, <1>9 DEF TaskOk
  <2>2. CASE LimitReached
    <3>1. RequestStop("timers")
        BY <1>9, <2>2 DEF TaskOk
    <3> QED
        BY <1>0, <2>1, <3>1, RequestStopStates, StoppedKeepsOnce
  <2>3. CASE ~LimitReached
    <3>1. iter < setup.limit
        BY <1>1, <2>1, <2>3, LoopAssumption DEF LimitReached, LoopInv, TypeOK, IsSetup
    <3>2. UNCHANGED <<list, tstate, linked, handle, token>>
      <4>1. token => cur \notin list
          BY DEF LoopInv, StopInv
      <4> QED
          BY <1>9, <2>1, <2>3, <4>1 DEF TaskOk, RemoveTask, OnceMode
    <3>3. Armed' = Armed /\ OnceCounted'
        BY <2>1, <3>2, CountedKept DEF Armed, OnceInv
    <3> QED
        BY <2>1, <3>1, <3>2, <3>3 DEF OnceInv
  <2> QED
      BY <2>2, <2>3
<1>10. CASE Signal
  <2>1. phase # "setup" /\ UNCHANGED <<phase, iter, ran>>
      BY <1>10 DEF Signal
  <2>2. StopAll \/ RequestStop("poll")
      BY <1>10 DEF Signal
  <2> QED
      BY <1>0, <2>1, <2>2, StopAllStates, RequestStopStates, StoppedKeepsOnce
<1>11. ASSUME NEW hard \in BOOLEAN, Shutdown(hard) PROVE OnceInv'
  <2>1. UNCHANGED <<setup, phase, cur, iter, ran>>
      BY <1>11 DEF Shutdown, runVars
  <2>2. CASE completed
      BY <1>11, <2>1, <2>2, IdleKeepsOnce DEF Shutdown
  <2>3. CASE ~completed
    <3>1. RequestStop(StopHere)
        BY <1>11, <2>3 DEF Shutdown
    <3> QED
        BY <1>0, <2>1, <3>1, RequestStopStates, StoppedKeepsOnce
  <2> QED
      BY <2>2, <2>3
<1>12. CASE LoopDestroy
  <2> DEFINE ts == {t \in Tasks : tstate[t] \in {"armed", "closing"}}
  <2>1. Free(ts) /\ phase' = "destroyed" /\ UNCHANGED <<token, cur, iter, ran>> /\ list' = {}
      BY <1>12 DEF LoopDestroy, runVars
  <2>2. \A u \in Tasks : handle'[u] = "none"
      BY <2>1 DEF Free, OnceInv, LoopInv, HandleSound
  <2>3. Armed' = {}
      BY <1>0, <2>1 DEF LoopInv, ListIsArmed
  <2>4. \A u \in Tasks : tstate[u] = "none" => tstate'[u] = "none"
      BY <2>1 DEF Free
  <2>5. OnceCounted'
      BY <2>1, <2>4, CountedKept DEF OnceInv
  <2> QED
      BY <2>1, <2>2, <2>3, <2>4, <2>5 DEF OnceInv
<1> QED
    BY <1>2, <1>3, <1>4, <1>5, <1>6, <1>7, <1>8, <1>9, <1>10, <1>11, <1>12 DEF Next

(* The once mode of run_runtime_loop: when the loop has counted as many     *)
(* timer callbacks as there are tasks, every task has run exactly once,     *)
(* whatever was stopped, failed or signalled on the way.                    *)
THEOREM OnceRunsEachHolds ==
    ASSUME IsFiniteSet(Tasks)
    PROVE  Spec => [](OnceMode => OnceRunsEach)
<1> DEFINE Inv == LoopInv /\ RunningInv /\ (OnceMode => OnceInv)
<1>1. Init => Inv
  <2> SUFFICES ASSUME Init PROVE Inv
      OBVIOUS
  <2>1. RunningInv
      BY DEF Init, RunningInv
  <2>2. Fired = {}
      BY DEF Init, Fired
  <2>3. \A t \in Tasks : handle[t] = "none" /\ tstate[t] = "none" /\ ran[t] = 0
      BY DEF Init
  <2>4. Armed = {}
      BY <2>3 DEF Armed
  <2>5. iter = Cardinality(Fired)
      BY <2>2, FS_EmptySet DEF Init
  <2> QED
      BY <2>1, <2>3, <2>4, <2>5, LoopInit DEF OnceInv, OnceCounted
<1>2. Inv /\ [Next]_vars => Inv'
  <2> SUFFICES ASSUME Inv, [Next]_vars PROVE Inv'
      OBVIOUS
  <2>1. OnceMode' => OnceMode
      BY SetupKept DEF OnceMode
  <2> QED
      BY <2>1, LoopStep, RunningStep, OnceStep
<1>3. Inv => (OnceMode => OnceRunsEach)
  <2> SUFFICES ASSUME OnceInv, OnceMode, LoopInv,
                      \A t \in Tasks : tstate[t] # "none", iter >= setup.limit
               PROVE  \A t \in Tasks : ran[t] = 1
      BY DEF OnceRunsEach
  <2>1. iter = Cardinality(Fired) /\ \A t \in Tasks : ran[t] <= 1 /\ ran[t] \in Nat
      BY DEF OnceInv, OnceCounted, LoopInv, TypeOK
  <2>2. Fired \subseteq Tasks
      BY DEF Fired
  <2>3. Fired = Tasks
    <3>1. Cardinality(Fired) <= Cardinality(Tasks) /\ (Cardinality(Tasks) = Cardinality(Fired) => Tasks = Fired)
        BY <2>2, FS_Subset
    <3>2. Cardinality(Fired) \in Nat /\ Cardinality(Tasks) \in Nat
        BY <2>2, FS_Subset, FS_CardinalityType
    <3> QED
        BY <2>1, <3>1, <3>2 DEF OnceMode
  <2> QED
      BY <2>1, <2>3 DEF Fired
<1> QED
    BY <1>1, <1>2, <1>3, PTL DEF Spec

-----------------------------------------------------------------------------
(* Sequences whose elements are of no particular type.                     *)
IsSeq(s) == \E S : s \in Seq(S)

LEMMA SeqDomain ==
    ASSUME NEW s, IsSeq(s)
    PROVE  Len(s) \in Nat /\ DOMAIN s = 1..Len(s)
BY LenProperties DEF IsSeq

LEMMA SeqSet ==
    ASSUME NEW s, IsSeq(s), NEW i \in DOMAIN s, NEW x, NEW t, t = [s EXCEPT ![i] = x]
    PROVE  /\ IsSeq(t) /\ DOMAIN t = DOMAIN s
           /\ \A j \in DOMAIN s : t[j] = IF j = i THEN x ELSE s[j]
<1>1. PICK S : s \in Seq(S)
    BY DEF IsSeq
<1>2. s \in Seq(S \cup {x}) /\ x \in S \cup {x} /\ i \in 1..Len(s)
    BY <1>1, SeqMonotonic, SeqDomain
<1>3. t \in Seq(S \cup {x})
    BY <1>2, ExceptSeq
<1> QED
    BY <1>3 DEF IsSeq

Added(s, x, t, n) == t = Append(s, x) /\ n = Len(s) + 1

Longer(s, x, t, n) ==
    /\ IsSeq(t) /\ DOMAIN t = DOMAIN s \cup {n} /\ n \notin DOMAIN s /\ n \in Nat \ {0}
    /\ \A j \in DOMAIN s : t[j] = s[j]
    /\ t[n] = x

LEMMA SeqAdd ==
    ASSUME NEW s, IsSeq(s), NEW x, NEW t, NEW n, Added(s, x, t, n)
    PROVE  Longer(s, x, t, n)
<1>1. PICK S : s \in Seq(S)
    BY DEF IsSeq
<1>2. PICK l \in Nat : l = Len(s) /\ DOMAIN s = 1..l
    BY SeqDomain
<1>3. s \in Seq(S \cup {x}) /\ x \in S \cup {x}
    BY <1>1, SeqMonotonic
<1>4. t \in Seq(S \cup {x}) /\ Len(t) = l + 1 /\ (\A i \in 1..l : t[i] = s[i]) /\ t[l + 1] = x
    BY <1>2, <1>3, AppendProperties DEF Added
<1>5. DOMAIN t = 1..(l + 1)
    BY <1>4, LenProperties
<1> QED
    BY <1>2, <1>4, <1>5 DEF IsSeq, Added, Longer

LEMMA SeqRest ==
    ASSUME NEW s, IsSeq(s), s # <<>>
    PROVE  /\ IsSeq(Tail(s)) /\ 1 \in DOMAIN s /\ Head(s) = s[1]
           /\ \A k \in DOMAIN Tail(s) : k + 1 \in DOMAIN s /\ Tail(s)[k] = s[k + 1]
<1>1. PICK S : s \in Seq(S)
    BY DEF IsSeq
<1>2. PICK l \in Nat : l = Len(s) /\ DOMAIN s = 1..l
    BY SeqDomain
<1>3. l # 0
    BY <1>1, <1>2, EmptySeq
<1>4. PICK t : t = Tail(s)
    OBVIOUS
<1>5. t \in Seq(S) /\ Len(t) = l - 1 /\ \A i \in 1..Len(t) : t[i] = s[i + 1]
    BY <1>1, <1>2, <1>4, HeadTailProperties
<1>6. DOMAIN t = 1..(l - 1)
    BY <1>5, LenProperties
<1>7. Head(s) = s[1]
    BY <1>1 
<1> QED
    BY <1>2, <1>3, <1>4, <1>5, <1>6, <1>7 DEF IsSeq

LEMMA EmptyIsSeq == IsSeq(<<>>) /\ DOMAIN <<>> = {}
BY EmptySeq DEF IsSeq

-----------------------------------------------------------------------------
(* The bootstrap: the order of a takedown.                                 *)

Joined(s, t, u) == u = s \o t

LEMMA SeqJoin ==
    ASSUME NEW s, NEW t, NEW u, IsSeq(s), IsSeq(t), Joined(s, t, u)
    PROVE  /\ IsSeq(u) /\ DOMAIN u = 1..(Len(s) + Len(t)) /\ Len(u) = Len(s) + Len(t)
           /\ \A i \in 1..Len(s) : u[i] = s[i]
           /\ \A i \in 1..Len(t) : u[Len(s) + i] = t[i]
<1>1. PICK S, T : s \in Seq(S) /\ t \in Seq(T)
    BY DEF IsSeq
<1>2. s \in Seq(S \cup T) /\ t \in Seq(S \cup T)
    BY <1>1
<1>3. /\ u \in Seq(S \cup T) /\ Len(u) = Len(s) + Len(t)
      /\ \A i \in 1..(Len(s) + Len(t)) : u[i] = IF i <= Len(s) THEN s[i] ELSE t[i - Len(s)]
    BY <1>2, ConcatProperties DEF Joined
<1>4. Len(s) \in Nat /\ Len(t) \in Nat /\ DOMAIN u = 1..Len(u)
    BY <1>2, <1>3, LenProperties
<1>5. ASSUME NEW i \in 1..Len(t) PROVE u[Len(s) + i] = t[i]
  <2>1. Len(s) + i \in 1..(Len(s) + Len(t)) /\ ~(Len(s) + i <= Len(s)) /\ Len(s) + i - Len(s) = i
      BY <1>4
  <2> QED
      BY <1>3, <2>1
<1> QED
    BY <1>3, <1>4, <1>5 DEF IsSeq

SetOf(s) == {s[i] : i \in DOMAIN s}

(* Where an object stands in boot_owned_clear and what follows it.         *)
Rank(x) ==
    CASE x.kind = "delivery" -> 1 [] x.kind = "observer" -> 2 [] x.kind = "gateway" -> 3
      [] x.kind = "heartbeat" -> 4 [] x.kind = "cron" -> 5 [] x.kind = "orchestrator" -> 6
      [] x.kind = "channel" -> 7 [] x.kind = "agent" -> 8 [] x.kind = "tool" -> 9 [] x.kind = "memory" -> 10
      [] x.kind = "tts" -> 11 [] x.kind = "transcriber" -> 12
      [] x.kind = "provider" -> (IF x.n = 0 THEN 13 ELSE 14)
      [] x.kind = "estop" -> 15 [] x.kind = "policy" -> 16 [] x.kind \in {"config", "secret_store"} -> 17
      [] OTHER -> 0

(* Objects in the order of their ranks, none of them twice.                *)
Asc(s, a, b) ==
    /\ IsSeq(s)
    /\ \A i \in DOMAIN s : Rank(s[i]) \in a..b
    /\ \A i, j \in DOMAIN s : i < j => Rank(s[i]) <= Rank(s[j]) /\ s[i] # s[j]

LEMMA AscJoin ==
    ASSUME NEW s, NEW t, NEW a \in Nat, NEW b \in Nat, NEW c \in Nat, NEW d \in Nat,
           Asc(s, a, b), Asc(t, c, d), a <= b, b <= c, c <= d, b < c \/ SetOf(s) \cap SetOf(t) = {}
    PROVE  Asc(s \o t, a, d) /\ SetOf(s \o t) = SetOf(s) \cup SetOf(t)
<1>1. PICK u : Joined(s, t, u) /\ u = s \o t
    BY DEF Joined
<1>2. IsSeq(s) /\ IsSeq(t)
    BY DEF Asc
<1>3. PICK m \in Nat, n \in Nat : m = Len(s) /\ n = Len(t) /\ DOMAIN s = 1..m /\ DOMAIN t = 1..n
    BY <1>2, SeqDomain
<1>4. /\ IsSeq(u) /\ DOMAIN u = 1..(m + n)
      /\ \A i \in 1..m : u[i] = s[i]
      /\ \A i \in 1..n : u[m + i] = t[i]
  <2>1. /\ IsSeq(u) /\ DOMAIN u = 1..(Len(s) + Len(t))
        /\ \A i \in 1..Len(s) : u[i] = s[i]
        /\ \A i \in 1..Len(t) : u[Len(s) + i] = t[i]
      BY <1>1, <1>2, SeqJoin
  <2> QED
      BY <1>3, <2>1
<1>5. ASSUME NEW i \in 1..(m + n)
      PROVE  (i \in 1..m /\ u[i] = s[i]) \/ (i > m /\ i - m \in 1..n /\ u[i] = t[i - m])
  <2>1. CASE i <= m
      BY <1>4, <2>1
  <2>2. CASE i > m
    <3>1. i - m \in 1..n /\ m + (i - m) = i
        BY <2>2
    <3> QED
        BY <1>4, <2>2, <3>1
  <2> QED
      BY <2>1, <2>2
<1>6. /\ \A i \in 1..m : Rank(s[i]) \in a..b
      /\ \A i \in 1..n : Rank(t[i]) \in c..d
    BY <1>3 DEF Asc
<1>7. ASSUME NEW i \in 1..(m + n) PROVE Rank(u[i]) \in a..d
    BY <1>5, <1>6
<1>8. ASSUME NEW i \in 1..(m + n), NEW j \in 1..(m + n), i < j
      PROVE  Rank(u[i]) <= Rank(u[j]) /\ u[i] # u[j]
  <2>1. CASE j <= m
    <3>1. u[i] = s[i] /\ u[j] = s[j] /\ i \in DOMAIN s /\ j \in DOMAIN s
        BY <1>3, <1>4, <1>8, <2>1
    <3> QED
        BY <1>8, <3>1 DEF Asc
  <2>2. CASE i > m
    <3>1. /\ i - m \in DOMAIN t /\ j - m \in DOMAIN t /\ i - m < j - m
          /\ u[i] = t[i - m] /\ u[j] = t[j - m]
        BY <1>3, <1>5, <1>8, <2>2
    <3> QED
        BY <3>1 DEF Asc
  <2>3. CASE i <= m /\ j > m
    <3>1. Rank(u[i]) \in a..b /\ Rank(u[j]) \in c..d
        BY <1>5, <1>6, <2>3
    <3>2. u[i] \in SetOf(s) /\ u[j] \in SetOf(t)
      <4>1. i \in DOMAIN s /\ u[i] = s[i]
          BY <1>3, <1>5, <2>3
      <4>2. j - m \in DOMAIN t /\ u[j] = t[j - m]
          BY <1>3, <1>5, <2>3
      <4> QED
          BY <4>1, <4>2 DEF SetOf
    <3> QED
        BY <3>1, <3>2
  <2> QED
      BY <2>1, <2>2, <2>3
<1>9. Asc(u, a, d)
    BY <1>4, <1>7, <1>8 DEF Asc
<1>10. SetOf(u) = SetOf(s) \cup SetOf(t)
  <2>1. ASSUME NEW i \in 1..(m + n) PROVE u[i] \in SetOf(s) \cup SetOf(t)
    <3>1. (i \in DOMAIN s /\ u[i] = s[i]) \/ (i - m \in DOMAIN t /\ u[i] = t[i - m])
        BY <1>3, <1>5
    <3> QED
        BY <3>1 DEF SetOf
  <2>2. ASSUME NEW i \in 1..m PROVE s[i] \in SetOf(u)
      BY <1>4 DEF SetOf
  <2>3. ASSUME NEW i \in 1..n PROVE t[i] \in SetOf(u)
    <3>1. m + i \in DOMAIN u /\ u[m + i] = t[i]
        BY <1>4
    <3> QED
        BY <3>1 DEF SetOf
  <2>4. SetOf(u) \subseteq SetOf(s) \cup SetOf(t)
      BY <1>4, <2>1 DEF SetOf
  <2>5. SetOf(s) \subseteq SetOf(u)
      BY <1>3, <2>2 DEF SetOf
  <2>6. SetOf(t) \subseteq SetOf(u)
      BY <1>3, <2>3 DEF SetOf
  <2> QED
      BY <2>4, <2>5, <2>6
<1> QED
    BY <1>1, <1>9, <1>10

Singles ==
    {"delivery", "observer", "gateway", "heartbeat", "cron", "orchestrator", "agent", "memory", "tts",
     "transcriber", "estop", "policy"}
Members == Singles \cup {"provider", "handles", "credentials", "tools", "channels"}

(* Objects of one kind, with their places.                                 *)
Numbered(s, kind) == IsSeq(s) /\ \A i \in DOMAIN s : s[i].kind = kind /\ s[i].n = i

(* What boot_owned holds: each member its own object or none, and as the   *)
(* provider the only handle, or an object of its own that wraps them.      *)
OwnedShape(o) ==
    /\ DOMAIN o = Members
    /\ \A m \in Singles : o[m] = {} \/ o[m] = {One(m)}
    /\ Numbered(o.handles, "provider") /\ Numbered(o.tools, "tool") /\ Numbered(o.channels, "channel")
    /\ \/ o.provider = {} \/ o.provider = {One("provider")}
       \/ Len(o.handles) = 1 /\ o.provider = {o.handles[1]}

Objects(o) ==
    o.delivery \cup o.observer \cup o.gateway \cup o.heartbeat \cup o.cron \cup o.orchestrator
    \cup SetOf(o.channels) \cup o.agent \cup SetOf(o.tools) \cup o.memory \cup o.tts \cup o.transcriber
    \cup o.provider \cup SetOf(o.handles) \cup o.estop \cup o.policy

LEMMA OneFields == \A m : One(m).kind = m /\ One(m).n = 0
BY Zenon DEF One, Obj

LEMMA AscOne ==
    ASSUME NEW x, NEW m, x = {} \/ x = {One(m)}, NEW r \in Nat, Rank(One(m)) = r
    PROVE  Asc(AsSeq(x), r, r) /\ SetOf(AsSeq(x)) = x
<1>1. CASE x = {}
  <2>1. AsSeq(x) = <<>>
      BY <1>1 DEF AsSeq
  <2> QED
      BY <1>1, <2>1, EmptyIsSeq DEF Asc, SetOf
<1>2. CASE x = {One(m)}
  <2>1. PICK y : y = One(m)
      OBVIOUS
  <2>2. AsSeq(x) = <<y>>
      BY <1>2, <2>1 DEF AsSeq
  <2>3. <<y>> \in Seq({y}) /\ DOMAIN <<y>> = {1} /\ <<y>>[1] = y
      OBVIOUS
  <2>4. PICK t : t = <<y>> /\ IsSeq(t) /\ DOMAIN t = {1} /\ t[1] = y
      BY <2>3 DEF IsSeq
  <2>5. \A i \in DOMAIN t : i = 1 /\ Rank(t[i]) = r
      BY <2>1, <2>4
  <2>6. Asc(t, r, r)
      BY <2>4, <2>5 DEF Asc
  <2>7. SetOf(t) = {y}
      BY <2>4 DEF SetOf
  <2> QED
      BY <1>2, <2>1, <2>2, <2>4, <2>6, <2>7
<1> QED
    BY <1>1, <1>2

LEMMA AscNext ==
    ASSUME NEW s, NEW t, NEW u, NEW a \in Nat, NEW b \in Nat,
           Asc(s, 1, a), Asc(t, b, b), 1 <= a, a < b, Joined(s, t, u)
    PROVE  Asc(u, 1, b) /\ SetOf(u) = SetOf(s) \cup SetOf(t)
BY AscJoin DEF Joined

LEMMA AscNumbered ==
    ASSUME NEW s, NEW kind, Numbered(s, kind), NEW r \in Nat,
           \A x : x.kind = kind /\ x.n \in Nat \ {0} => Rank(x) = r
    PROVE  Asc(s, r, r)
<1>1. PICK l \in Nat : DOMAIN s = 1..l
    BY SeqDomain DEF Numbered
<1>2. ASSUME NEW i \in 1..l PROVE Rank(s[i]) = r /\ s[i].n = i
    BY <1>1 DEF Numbered
<1> QED
    BY <1>1, <1>2 DEF Asc, Numbered

(* boot_owned_clear destroys what the members hold, each object once, in   *)
(* the order of the ranks.                                                 *)
LEMMA ClearOrder ==
    ASSUME NEW o, OwnedShape(o)
    PROVE  Asc(BootOwnedClear(o), 1, 16) /\ SetOf(BootOwnedClear(o)) = Objects(o)
<1>1. Asc(AsSeq(o.delivery), 1, 1) /\ SetOf(AsSeq(o.delivery)) = o.delivery
  <2>1. Rank(One("delivery")) = 1
      BY OneFields DEF Rank
  <2>2. o.delivery = {} \/ o.delivery = {One("delivery")}
      BY DEF OwnedShape, Singles
  <2> QED
      BY <2>1, <2>2, AscOne
<1>2. Asc(AsSeq(o.observer), 2, 2) /\ SetOf(AsSeq(o.observer)) = o.observer
  <2>1. Rank(One("observer")) = 2
      BY OneFields DEF Rank
  <2>2. o.observer = {} \/ o.observer = {One("observer")}
      BY DEF OwnedShape, Singles
  <2> QED
      BY <2>1, <2>2, AscOne
<1>3. Asc(AsSeq(o.gateway), 3, 3) /\ SetOf(AsSeq(o.gateway)) = o.gateway
  <2>1. Rank(One("gateway")) = 3
      BY OneFields DEF Rank
  <2>2. o.gateway = {} \/ o.gateway = {One("gateway")}
      BY DEF OwnedShape, Singles
  <2> QED
      BY <2>1, <2>2, AscOne
<1>4. Asc(AsSeq(o.heartbeat), 4, 4) /\ SetOf(AsSeq(o.heartbeat)) = o.heartbeat
  <2>1. Rank(One("heartbeat")) = 4
      BY OneFields DEF Rank
  <2>2. o.heartbeat = {} \/ o.heartbeat = {One("heartbeat")}
      BY DEF OwnedShape, Singles
  <2> QED
      BY <2>1, <2>2, AscOne
<1>5. Asc(AsSeq(o.cron), 5, 5) /\ SetOf(AsSeq(o.cron)) = o.cron
  <2>1. Rank(One("cron")) = 5
      BY OneFields DEF Rank
  <2>2. o.cron = {} \/ o.cron = {One("cron")}
      BY DEF OwnedShape, Singles
  <2> QED
      BY <2>1, <2>2, AscOne
<1>6. Asc(AsSeq(o.orchestrator), 6, 6) /\ SetOf(AsSeq(o.orchestrator)) = o.orchestrator
  <2>1. Rank(One("orchestrator")) = 6
      BY OneFields DEF Rank
  <2>2. o.orchestrator = {} \/ o.orchestrator = {One("orchestrator")}
      BY DEF OwnedShape, Singles
  <2> QED
      BY <2>1, <2>2, AscOne
<1>7. Asc(o.channels, 7, 7)
  <2>1. \A x : x.kind = "channel" /\ x.n \in Nat \ {0} => Rank(x) = 7
      BY DEF Rank
  <2> QED
      BY <2>1, AscNumbered DEF OwnedShape
<1>8. Asc(AsSeq(o.agent), 8, 8) /\ SetOf(AsSeq(o.agent)) = o.agent
  <2>1. Rank(One("agent")) = 8
      BY OneFields DEF Rank
  <2>2. o.agent = {} \/ o.agent = {One("agent")}
      BY DEF OwnedShape, Singles
  <2> QED
      BY <2>1, <2>2, AscOne
<1>9. Asc(o.tools, 9, 9)
  <2>1. \A x : x.kind = "tool" /\ x.n \in Nat \ {0} => Rank(x) = 9
      BY DEF Rank
  <2> QED
      BY <2>1, AscNumbered DEF OwnedShape
<1>10. Asc(AsSeq(o.memory), 10, 10) /\ SetOf(AsSeq(o.memory)) = o.memory
  <2>1. Rank(One("memory")) = 10
      BY OneFields DEF Rank
  <2>2. o.memory = {} \/ o.memory = {One("memory")}
      BY DEF OwnedShape, Singles
  <2> QED
      BY <2>1, <2>2, AscOne
<1>11. Asc(AsSeq(o.tts), 11, 11) /\ SetOf(AsSeq(o.tts)) = o.tts
  <2>1. Rank(One("tts")) = 11
      BY OneFields DEF Rank
  <2>2. o.tts = {} \/ o.tts = {One("tts")}
      BY DEF OwnedShape, Singles
  <2> QED
      BY <2>1, <2>2, AscOne
<1>12. Asc(AsSeq(o.transcriber), 12, 12) /\ SetOf(AsSeq(o.transcriber)) = o.transcriber
  <2>1. Rank(One("transcriber")) = 12
      BY OneFields DEF Rank
  <2>2. o.transcriber = {} \/ o.transcriber = {One("transcriber")}
      BY DEF OwnedShape, Singles
  <2> QED
      BY <2>1, <2>2, AscOne
<1>13. PICK p : /\ p = (IF SingleHandle(o) THEN <<>> ELSE AsSeq(o.provider))
                /\ Asc(p, 13, 13) /\ SetOf(p) \cup SetOf(o.handles) = o.provider \cup SetOf(o.handles)
  <2>1. CASE SingleHandle(o)
    <3>1. IsSeq(o.handles) /\ 1 \in DOMAIN o.handles
        BY <2>1, SeqDomain DEF SingleHandle, OwnedShape, Numbered
    <3>2. o.provider \subseteq SetOf(o.handles)
        BY <2>1, <3>1 DEF SingleHandle, SetOf
    <3>3. Asc(<<>>, 13, 13) /\ SetOf(<<>>) = {}
        BY EmptyIsSeq DEF Asc, SetOf
    <3> QED
        BY <2>1, <3>2, <3>3
  <2>2. CASE ~SingleHandle(o)
    <3>1. o.provider = {} \/ o.provider = {One("provider")}
        BY <2>2 DEF OwnedShape, SingleHandle
    <3>2. Rank(One("provider")) = 13
        BY OneFields DEF Rank
    <3>3. Asc(AsSeq(o.provider), 13, 13) /\ SetOf(AsSeq(o.provider)) = o.provider
        BY <3>1, <3>2, AscOne
    <3> QED
        BY <2>2, <3>3
  <2> QED
      BY <2>1, <2>2
<1>14. Asc(o.handles, 14, 14)
  <2>1. \A x : x.kind = "provider" /\ x.n \in Nat \ {0} => Rank(x) = 14
      BY DEF Rank
  <2> QED
      BY <2>1, AscNumbered DEF OwnedShape
<1>15. Asc(AsSeq(o.estop), 15, 15) /\ SetOf(AsSeq(o.estop)) = o.estop
  <2>1. Rank(One("estop")) = 15
      BY OneFields DEF Rank
  <2>2. o.estop = {} \/ o.estop = {One("estop")}
      BY DEF OwnedShape, Singles
  <2> QED
      BY <2>1, <2>2, AscOne
<1>16. Asc(AsSeq(o.policy), 16, 16) /\ SetOf(AsSeq(o.policy)) = o.policy
  <2>1. Rank(One("policy")) = 16
      BY OneFields DEF Rank
  <2>2. o.policy = {} \/ o.policy = {One("policy")}
      BY DEF OwnedShape, Singles
  <2> QED
      BY <2>1, <2>2, AscOne
<1>17. PICK s2 : /\ Joined(AsSeq(o.delivery), AsSeq(o.observer), s2) /\ Asc(s2, 1, 2)
                 /\ SetOf(s2) = SetOf(AsSeq(o.delivery)) \cup SetOf(AsSeq(o.observer))
  <2>1. PICK u : Joined(AsSeq(o.delivery), AsSeq(o.observer), u)
      BY DEF Joined
  <2> QED
      BY <1>1, <1>2, <2>1, AscNext
<1>18. PICK s3 : /\ Joined(s2, AsSeq(o.gateway), s3) /\ Asc(s3, 1, 3)
                 /\ SetOf(s3) = SetOf(s2) \cup SetOf(AsSeq(o.gateway))
  <2>1. PICK u : Joined(s2, AsSeq(o.gateway), u)
      BY DEF Joined
  <2> QED
      BY <1>17, <1>3, <2>1, AscNext
<1>19. PICK s4 : /\ Joined(s3, AsSeq(o.heartbeat), s4) /\ Asc(s4, 1, 4)
                 /\ SetOf(s4) = SetOf(s3) \cup SetOf(AsSeq(o.heartbeat))
  <2>1. PICK u : Joined(s3, AsSeq(o.heartbeat), u)
      BY DEF Joined
  <2> QED
      BY <1>18, <1>4, <2>1, AscNext
<1>20. PICK s5 : /\ Joined(s4, AsSeq(o.cron), s5) /\ Asc(s5, 1, 5)
                 /\ SetOf(s5) = SetOf(s4) \cup SetOf(AsSeq(o.cron))
  <2>1. PICK u : Joined(s4, AsSeq(o.cron), u)
      BY DEF Joined
  <2> QED
      BY <1>19, <1>5, <2>1, AscNext
<1>21. PICK s6 : /\ Joined(s5, AsSeq(o.orchestrator), s6) /\ Asc(s6, 1, 6)
                 /\ SetOf(s6) = SetOf(s5) \cup SetOf(AsSeq(o.orchestrator))
  <2>1. PICK u : Joined(s5, AsSeq(o.orchestrator), u)
      BY DEF Joined
  <2> QED
      BY <1>20, <1>6, <2>1, AscNext
<1>22. PICK s7 : /\ Joined(s6, o.channels, s7) /\ Asc(s7, 1, 7)
                 /\ SetOf(s7) = SetOf(s6) \cup SetOf(o.channels)
  <2>1. PICK u : Joined(s6, o.channels, u)
      BY DEF Joined
  <2> QED
      BY <1>21, <1>7, <2>1, AscNext
<1>23. PICK s8 : /\ Joined(s7, AsSeq(o.agent), s8) /\ Asc(s8, 1, 8)
                 /\ SetOf(s8) = SetOf(s7) \cup SetOf(AsSeq(o.agent))
  <2>1. PICK u : Joined(s7, AsSeq(o.agent), u)
      BY DEF Joined
  <2> QED
      BY <1>22, <1>8, <2>1, AscNext
<1>24. PICK s9 : /\ Joined(s8, o.tools, s9) /\ Asc(s9, 1, 9)
                 /\ SetOf(s9) = SetOf(s8) \cup SetOf(o.tools)
  <2>1. PICK u : Joined(s8, o.tools, u)
      BY DEF Joined
  <2> QED
      BY <1>23, <1>9, <2>1, AscNext
<1>25. PICK s10 : /\ Joined(s9, AsSeq(o.memory), s10) /\ Asc(s10, 1, 10)
                 /\ SetOf(s10) = SetOf(s9) \cup SetOf(AsSeq(o.memory))
  <2>1. PICK u : Joined(s9, AsSeq(o.memory), u)
      BY DEF Joined
  <2> QED
      BY <1>24, <1>10, <2>1, AscNext
<1>26. PICK s11 : /\ Joined(s10, AsSeq(o.tts), s11) /\ Asc(s11, 1, 11)
                 /\ SetOf(s11) = SetOf(s10) \cup SetOf(AsSeq(o.tts))
  <2>1. PICK u : Joined(s10, AsSeq(o.tts), u)
      BY DEF Joined
  <2> QED
      BY <1>25, <1>11, <2>1, AscNext
<1>27. PICK s12 : /\ Joined(s11, AsSeq(o.transcriber), s12) /\ Asc(s12, 1, 12)
                 /\ SetOf(s12) = SetOf(s11) \cup SetOf(AsSeq(o.transcriber))
  <2>1. PICK u : Joined(s11, AsSeq(o.transcriber), u)
      BY DEF Joined
  <2> QED
      BY <1>26, <1>12, <2>1, AscNext
<1>28. PICK s13 : /\ Joined(s12, p, s13) /\ Asc(s13, 1, 13)
                 /\ SetOf(s13) = SetOf(s12) \cup SetOf(p)
  <2>1. PICK u : Joined(s12, p, u)
      BY DEF Joined
  <2> QED
      BY <1>27, <1>13, <2>1, AscNext
<1>29. PICK s14 : /\ Joined(s13, o.handles, s14) /\ Asc(s14, 1, 14)
                 /\ SetOf(s14) = SetOf(s13) \cup SetOf(o.handles)
  <2>1. PICK u : Joined(s13, o.handles, u)
      BY DEF Joined
  <2> QED
      BY <1>28, <1>14, <2>1, AscNext
<1>30. PICK s15 : /\ Joined(s14, AsSeq(o.estop), s15) /\ Asc(s15, 1, 15)
                 /\ SetOf(s15) = SetOf(s14) \cup SetOf(AsSeq(o.estop))
  <2>1. PICK u : Joined(s14, AsSeq(o.estop), u)
      BY DEF Joined
  <2> QED
      BY <1>29, <1>15, <2>1, AscNext
<1>31. PICK s16 : /\ Joined(s15, AsSeq(o.policy), s16) /\ Asc(s16, 1, 16)
                 /\ SetOf(s16) = SetOf(s15) \cup SetOf(AsSeq(o.policy))
  <2>1. PICK u : Joined(s15, AsSeq(o.policy), u)
      BY DEF Joined
  <2> QED
      BY <1>30, <1>16, <2>1, AscNext
<1>32. BootOwnedClear(o) = s16
    BY <1>13, <1>17, <1>18, <1>19, <1>20, <1>21, <1>22, <1>23, <1>24, <1>25, <1>26, <1>27, <1>28, <1>29,
       <1>30, <1>31 DEF BootOwnedClear, Joined
<1>33. SetOf(s6) = o.delivery \cup o.observer \cup o.gateway \cup o.heartbeat \cup o.cron \cup
                    o.orchestrator
    BY <1>1, <1>2, <1>3, <1>4, <1>5, <1>6, <1>17, <1>18, <1>19, <1>20, <1>21
<1>34. SetOf(s12) = SetOf(s6) \cup SetOf(o.channels) \cup o.agent \cup SetOf(o.tools) \cup o.memory
                    \cup o.tts \cup o.transcriber
    BY <1>7, <1>8, <1>9, <1>10, <1>11, <1>12, <1>22, <1>23, <1>24, <1>25, <1>26, <1>27
<1>35. SetOf(s16) = SetOf(s12) \cup SetOf(p) \cup SetOf(o.handles) \cup o.estop \cup o.policy
    BY <1>13, <1>14, <1>15, <1>16, <1>28, <1>29, <1>30, <1>31
<1>36. SetOf(s16) = Objects(o)
    BY <1>13, <1>33, <1>34, <1>35 DEF Objects
<1> QED
    BY <1>31, <1>32, <1>36

-----------------------------------------------------------------------------
(* What an object calls into is destroyed after it.                        *)
LEMMA MemberKind ==
    ASSUME NEW o, OwnedShape(o)
    PROVE  /\ \A m \in Singles : \A y \in o[m] : y.kind = m
           /\ \A y \in o.provider \cup SetOf(o.handles) : y.kind = "provider"
           /\ \A y \in SetOf(o.handles) : y.n # 0
           /\ \A y \in SetOf(o.tools) : y.kind = "tool"
           /\ \A y \in SetOf(o.channels) : y.kind = "channel"
<1>1. \A m \in Singles : \A y \in o[m] : y.kind = m
    BY OneFields DEF OwnedShape
<1>2. ASSUME NEW y \in SetOf(o.handles) PROVE y.kind = "provider" /\ y.n # 0
  <2>1. PICK i \in DOMAIN o.handles : y = o.handles[i]
      BY <1>2 DEF SetOf
  <2>2. y.kind = "provider" /\ y.n = i
      BY <2>1 DEF OwnedShape, Numbered
  <2>3. i \in Nat \ {0}
      BY SeqDomain DEF OwnedShape, Numbered
  <2> QED
      BY <2>2, <2>3
<1>3. ASSUME NEW y \in o.provider PROVE y.kind = "provider"
  <2>1. CASE Len(o.handles) = 1 /\ o.provider = {o.handles[1]}
    <3>1. 1 \in DOMAIN o.handles
        BY <2>1, SeqDomain DEF OwnedShape, Numbered
    <3>2. y \in SetOf(o.handles)
        BY <1>3, <2>1, <3>1 DEF SetOf
    <3> QED
        BY <1>2, <3>2
  <2>2. CASE o.provider = {One("provider")}
      BY <1>3, <2>2, OneFields
  <2> QED
      BY <1>3, <2>1, <2>2 DEF OwnedShape
<1>4. \A y \in SetOf(o.tools) : y.kind = "tool"
    BY DEF OwnedShape, Numbered, SetOf
<1>5. \A y \in SetOf(o.channels) : y.kind = "channel"
    BY DEF OwnedShape, Numbered, SetOf
<1> QED
    BY <1>1, <1>2, <1>3, <1>4, <1>5

LEMMA UsesRank ==
    ASSUME NEW c, NEW o, OwnedShape(o), NEW x, NEW y \in Uses(c, o, x)
    PROVE  /\ Rank(x) < Rank(y)
           /\ y \in Objects(o) \/ (y = ConfigObject /\ x.kind = "gateway")
<1>1. /\ \A z \in o.memory : z.kind = "memory"
      /\ \A z \in o.policy : z.kind = "policy"
      /\ \A z \in o.estop : z.kind = "estop"
      /\ \A z \in o.agent : z.kind = "agent"
      /\ \A z \in o.transcriber : z.kind = "transcriber"
      /\ \A z \in o.tts : z.kind = "tts"
      /\ \A z \in o.gateway : z.kind = "gateway"
      /\ \A z \in o.orchestrator : z.kind = "orchestrator"
    BY MemberKind DEF Singles
<1>2. Handles(o) = SetOf(o.handles)
    BY DEF Handles, SetOf
<1>3. CASE x.kind = "provider" /\ x.n = 0
  <2>1. y \in SetOf(o.handles)
      BY <1>2, <1>3 DEF Uses
  <2>2. y.kind = "provider" /\ y.n # 0
      BY <2>1, MemberKind
  <2> QED
      BY <1>3, <2>1, <2>2 DEF Rank, Objects
<1>4. CASE x.kind = "tool"
  <2>1. y \in o.memory \cup o.policy \cup o.estop
      BY <1>4 DEF Uses
  <2>2. y.kind \in {"memory", "policy", "estop"}
      BY <1>1, <2>1
  <2>3. Rank(x) = 9 /\ Rank(y) > 9
      BY <1>4, <2>2 DEF Rank
  <2> QED
      BY <2>1, <2>3 DEF Objects
<1>5. CASE x.kind = "agent"
  <2>1. y \in o.provider \cup o.memory \cup SetOf(o.tools) \cup o.policy \cup o.estop
      BY <1>5 DEF Uses, SetOf
  <2>2. y.kind \in {"provider", "memory", "tool", "policy", "estop"}
      BY <1>1, <2>1, MemberKind
  <2>3. Rank(x) = 8 /\ Rank(y) > 8
      BY <1>5, <2>2 DEF Rank
  <2> QED
      BY <2>1, <2>3 DEF Objects
<1>6. CASE x.kind = "orchestrator"
  <2>1. y \in o.agent \cup SetOf(o.channels) \cup o.transcriber \cup o.tts
      BY <1>6 DEF Uses, SetOf
  <2>2. y.kind \in {"agent", "channel", "transcriber", "tts"}
      BY <1>1, <2>1, MemberKind
  <2>3. Rank(x) = 6 /\ Rank(y) > 6
      BY <1>6, <2>2 DEF Rank
  <2> QED
      BY <2>1, <2>3 DEF Objects
<1>7. CASE x.kind = "gateway"
  <2>1. y \in o.agent \/ y = ConfigObject
      BY <1>7 DEF Uses
  <2>2. y.kind \in {"agent", "config"}
      BY <1>1, <2>1, OneFields DEF ConfigObject
  <2>3. Rank(x) = 3 /\ Rank(y) > 3
      BY <1>7, <2>2 DEF Rank
  <2> QED
      BY <1>7, <2>1, <2>3 DEF Objects
<1>8. CASE x.kind = "observer"
  <2>1. y \in o.gateway
      BY <1>8 DEF Uses
  <2>2. Rank(x) = 2 /\ Rank(y) = 3
      BY <1>1, <1>8, <2>1 DEF Rank
  <2> QED
      BY <2>1, <2>2 DEF Objects
<1>9. CASE x.kind = "delivery"
  <2>1. y \in o.orchestrator
      BY <1>9 DEF Uses
  <2>2. Rank(x) = 1 /\ Rank(y) = 6
      BY <1>1, <1>9, <2>1 DEF Rank
  <2> QED
      BY <2>1, <2>2 DEF Objects
<1> QED
    BY <1>3, <1>4, <1>5, <1>6, <1>7, <1>8, <1>9 DEF Uses

-----------------------------------------------------------------------------
(* What is said of a built-in tool is what the tool declares.              *)
Truthful(s) == IsSeq(s) /\ \A i \in DOMAIN s : s[i].decl = ToolSpec(s[i].name)

LEMMA TruthfulJoin ==
    ASSUME NEW s, NEW t, NEW u, Truthful(s), Truthful(t), Joined(s, t, u)
    PROVE  Truthful(u)
<1>1. IsSeq(s) /\ IsSeq(t)
    BY DEF Truthful
<1>2. PICK m \in Nat, n \in Nat : m = Len(s) /\ n = Len(t) /\ DOMAIN s = 1..m /\ DOMAIN t = 1..n
    BY <1>1, SeqDomain
<1>3. /\ IsSeq(u) /\ DOMAIN u = 1..(m + n)
      /\ \A i \in 1..m : u[i] = s[i]
      /\ \A i \in 1..n : u[m + i] = t[i]
  <2>1. /\ IsSeq(u) /\ DOMAIN u = 1..(Len(s) + Len(t))
        /\ \A i \in 1..Len(s) : u[i] = s[i]
        /\ \A i \in 1..Len(t) : u[Len(s) + i] = t[i]
      BY <1>1, SeqJoin
  <2> QED
      BY <1>2, <2>1
<1>4. ASSUME NEW i \in 1..(m + n) PROVE u[i].decl = ToolSpec(u[i].name)
  <2>1. CASE i <= m
    <3>1. i \in DOMAIN s /\ u[i] = s[i]
        BY <1>2, <1>3, <2>1
    <3> QED
        BY <3>1 DEF Truthful
  <2>2. CASE i > m
    <3>1. i - m \in DOMAIN t /\ m + (i - m) = i
        BY <1>2, <2>2
    <3>2. u[i] = t[i - m]
        BY <1>2, <1>3, <3>1
    <3> QED
        BY <3>1, <3>2 DEF Truthful
  <2> QED
      BY <2>1, <2>2
<1> QED
    BY <1>3, <1>4 DEF Truthful

LEMMA ToolFields == \A name, decl : Tool(name, decl).name = name /\ Tool(name, decl).decl = decl
BY DEF Tool

TruthfulTool(t) == t.decl = ToolSpec(t.name)

LEMMA Truthful2 ==
    ASSUME NEW t1, NEW t2, TruthfulTool(t1), TruthfulTool(t2)
    PROVE  Truthful(<<t1, t2>>)
<1>1. PICK s : s = <<t1, t2>>
    OBVIOUS
<1>2. s \in Seq({t1, t2}) /\ DOMAIN s = 1..2 /\ s[1] = t1 /\ s[2] = t2
    BY <1>1
<1>3. ASSUME NEW i \in 1..2 PROVE TruthfulTool(s[i])
    BY <1>2
<1> QED
    BY <1>1, <1>2, <1>3 DEF Truthful, TruthfulTool, IsSeq

LEMMA Truthful3 ==
    ASSUME NEW t1, NEW t2, NEW t3, TruthfulTool(t1), TruthfulTool(t2), TruthfulTool(t3)
    PROVE  Truthful(<<t1, t2, t3>>)
<1>1. PICK s : s = <<t1, t2, t3>>
    OBVIOUS
<1>2. s \in Seq({t1, t2, t3}) /\ DOMAIN s = 1..3 /\ s[1] = t1 /\ s[2] = t2 /\ s[3] = t3
    BY <1>1
<1>3. ASSUME NEW i \in 1..3 PROVE TruthfulTool(s[i])
    BY <1>2
<1> QED
    BY <1>1, <1>2, <1>3 DEF Truthful, TruthfulTool, IsSeq

LEMMA Truthful5 ==
    ASSUME NEW t1, NEW t2, NEW t3, NEW t4, NEW t5, TruthfulTool(t1), TruthfulTool(t2), TruthfulTool(t3),
           TruthfulTool(t4), TruthfulTool(t5)
    PROVE  Truthful(<<t1, t2, t3, t4, t5>>)
<1>1. PICK s : s = <<t1, t2, t3, t4, t5>>
    OBVIOUS
<1>2. s \in Seq({t1, t2, t3, t4, t5}) /\ DOMAIN s = 1..5 /\ s[1] = t1 /\ s[2] = t2 /\ s[3] = t3 /\ s[4] = t4 /\
      s[5] = t5
    BY <1>1
<1>3. ASSUME NEW i \in 1..5 PROVE TruthfulTool(s[i])
    BY <1>2
<1> QED
    BY <1>1, <1>2, <1>3 DEF Truthful, TruthfulTool, IsSeq

LEMMA Truthful7 ==
    ASSUME NEW t1, NEW t2, NEW t3, NEW t4, NEW t5, NEW t6, NEW t7, TruthfulTool(t1), TruthfulTool(t2),
           TruthfulTool(t3), TruthfulTool(t4), TruthfulTool(t5), TruthfulTool(t6), TruthfulTool(t7)
    PROVE  Truthful(<<t1, t2, t3, t4, t5, t6, t7>>)
<1>1. PICK s : s = <<t1, t2, t3, t4, t5, t6, t7>>
    OBVIOUS
<1>2. s \in Seq({t1, t2, t3, t4, t5, t6, t7}) /\ DOMAIN s = 1..7 /\ s[1] = t1 /\ s[2] = t2 /\ s[3] = t3 /\ s[4]
      = t4 /\ s[5] = t5 /\ s[6] = t6 /\ s[7] = t7
    BY <1>1
<1>3. ASSUME NEW i \in 1..7 PROVE TruthfulTool(s[i])
    BY <1>2
<1> QED
    BY <1>1, <1>2, <1>3 DEF Truthful, TruthfulTool, IsSeq

LEMMA DiagnosticToolsTruthful == Truthful(DiagnosticTools)
<1>1. TruthfulTool(Tool("tool_diagnostics", Reads({})))
    BY ToolFields DEF TruthfulTool, ToolSpec, FileToolSpec, FileReadSpec, PdfExtractSpec, SearchToolSpec,
       DiagnosticSpec, AutonomyToolSpec, MemoryToolSpec, HttpToolSpec, ShellSpec, BrowserSpec, TimeSpec
<1>2. TruthfulTool(Tool("policy_explain", Reads({})))
    BY ToolFields DEF TruthfulTool, ToolSpec, FileToolSpec, FileReadSpec, PdfExtractSpec, SearchToolSpec,
       DiagnosticSpec, AutonomyToolSpec, MemoryToolSpec, HttpToolSpec, ShellSpec, BrowserSpec, TimeSpec
<1>3. TruthfulTool(Tool("tool_registry_list", Reads({})))
    BY ToolFields DEF TruthfulTool, ToolSpec, FileToolSpec, FileReadSpec, PdfExtractSpec, SearchToolSpec,
       DiagnosticSpec, AutonomyToolSpec, MemoryToolSpec, HttpToolSpec, ShellSpec, BrowserSpec, TimeSpec
<1>4. TruthfulTool(Tool("dependency_status", Reads({})))
    BY ToolFields DEF TruthfulTool, ToolSpec, FileToolSpec, FileReadSpec, PdfExtractSpec, SearchToolSpec,
       DiagnosticSpec, AutonomyToolSpec, MemoryToolSpec, HttpToolSpec, ShellSpec, BrowserSpec, TimeSpec
<1>5. TruthfulTool(Tool("capability_matrix", Reads({})))
    BY ToolFields DEF TruthfulTool, ToolSpec, FileToolSpec, FileReadSpec, PdfExtractSpec, SearchToolSpec,
       DiagnosticSpec, AutonomyToolSpec, MemoryToolSpec, HttpToolSpec, ShellSpec, BrowserSpec, TimeSpec
<1>6. TruthfulTool(Tool("resource_usage", Reads({})))
    BY ToolFields DEF TruthfulTool, ToolSpec, FileToolSpec, FileReadSpec, PdfExtractSpec, SearchToolSpec,
       DiagnosticSpec, AutonomyToolSpec, MemoryToolSpec, HttpToolSpec, ShellSpec, BrowserSpec, TimeSpec
<1>7. TruthfulTool(Tool("approval_test", Writes({})))
    BY ToolFields DEF TruthfulTool, ToolSpec, FileToolSpec, FileReadSpec, PdfExtractSpec, SearchToolSpec,
       DiagnosticSpec, AutonomyToolSpec, MemoryToolSpec, HttpToolSpec, ShellSpec, BrowserSpec, TimeSpec
<1>8. Truthful(<<Tool("tool_diagnostics", Reads({})),
                Tool("policy_explain", Reads({})),
                Tool("tool_registry_list", Reads({})),
                Tool("dependency_status", Reads({})),
                Tool("capability_matrix", Reads({})),
                Tool("resource_usage", Reads({})),
                Tool("approval_test", Writes({}))>>)
    BY <1>1, <1>2, <1>3, <1>4, <1>5, <1>6, <1>7, Truthful7
<1> QED
    BY <1>8 DEF DiagnosticTools

LEMMA FileToolsTruthful == Truthful(FileTools)
<1>1. TruthfulTool(Tool("file_read", Reads({"filesystem"})))
    BY ToolFields DEF TruthfulTool, ToolSpec, FileToolSpec, FileReadSpec, PdfExtractSpec, SearchToolSpec,
       DiagnosticSpec, AutonomyToolSpec, MemoryToolSpec, HttpToolSpec, ShellSpec, BrowserSpec, TimeSpec
<1>2. TruthfulTool(Tool("file_write", Writes({"filesystem"})))
    BY ToolFields DEF TruthfulTool, ToolSpec, FileToolSpec, FileReadSpec, PdfExtractSpec, SearchToolSpec,
       DiagnosticSpec, AutonomyToolSpec, MemoryToolSpec, HttpToolSpec, ShellSpec, BrowserSpec, TimeSpec
<1>3. TruthfulTool(Tool("file_list", Reads({"filesystem"})))
    BY ToolFields DEF TruthfulTool, ToolSpec, FileToolSpec, FileReadSpec, PdfExtractSpec, SearchToolSpec,
       DiagnosticSpec, AutonomyToolSpec, MemoryToolSpec, HttpToolSpec, ShellSpec, BrowserSpec, TimeSpec
<1>4. TruthfulTool(Tool("content_search", Reads({"filesystem"})))
    BY ToolFields DEF TruthfulTool, ToolSpec, FileToolSpec, FileReadSpec, PdfExtractSpec, SearchToolSpec,
       DiagnosticSpec, AutonomyToolSpec, MemoryToolSpec, HttpToolSpec, ShellSpec, BrowserSpec, TimeSpec
<1>5. TruthfulTool(Tool("glob_search", Reads({"filesystem"})))
    BY ToolFields DEF TruthfulTool, ToolSpec, FileToolSpec, FileReadSpec, PdfExtractSpec, SearchToolSpec,
       DiagnosticSpec, AutonomyToolSpec, MemoryToolSpec, HttpToolSpec, ShellSpec, BrowserSpec, TimeSpec
<1>6. Truthful(<<Tool("file_read", Reads({"filesystem"})),
                Tool("file_write", Writes({"filesystem"})),
                Tool("file_list", Reads({"filesystem"})),
                Tool("content_search", Reads({"filesystem"})),
                Tool("glob_search", Reads({"filesystem"}))>>)
    BY <1>1, <1>2, <1>3, <1>4, <1>5, Truthful5
<1> QED
    BY <1>6 DEF FileTools

LEMMA OutsideToolsTruthful == Truthful(OutsideTools)
<1>1. TruthfulTool(Tool("shell", Decl("shell", {"process"}, "process")))
    BY ToolFields DEF TruthfulTool, ToolSpec, FileToolSpec, FileReadSpec, PdfExtractSpec, SearchToolSpec,
       DiagnosticSpec, AutonomyToolSpec, MemoryToolSpec, HttpToolSpec, ShellSpec, BrowserSpec, TimeSpec
<1>2. TruthfulTool(Tool("http", Decl("network", {"network"}, "network")))
    BY ToolFields DEF TruthfulTool, ToolSpec, FileToolSpec, FileReadSpec, PdfExtractSpec, SearchToolSpec,
       DiagnosticSpec, AutonomyToolSpec, MemoryToolSpec, HttpToolSpec, ShellSpec, BrowserSpec, TimeSpec
<1>3. TruthfulTool(Tool("web_search", Decl("readonly", {"network"}, "network")))
    BY ToolFields DEF TruthfulTool, ToolSpec, FileToolSpec, FileReadSpec, PdfExtractSpec, SearchToolSpec,
       DiagnosticSpec, AutonomyToolSpec, MemoryToolSpec, HttpToolSpec, ShellSpec, BrowserSpec, TimeSpec
<1>4. Truthful(<<Tool("shell", Decl("shell", {"process"}, "process")),
                Tool("http", Decl("network", {"network"}, "network")),
                Tool("web_search", Decl("readonly", {"network"}, "network"))>>)
    BY <1>1, <1>2, <1>3, Truthful3
<1> QED
    BY <1>4 DEF OutsideTools

LEMMA MemoryToolsTruthful == Truthful(MemoryTools)
<1>1. TruthfulTool(Tool("pdf_extract", Reads({"filesystem"})))
    BY ToolFields DEF TruthfulTool, ToolSpec, FileToolSpec, FileReadSpec, PdfExtractSpec, SearchToolSpec,
       DiagnosticSpec, AutonomyToolSpec, MemoryToolSpec, HttpToolSpec, ShellSpec, BrowserSpec, TimeSpec
<1>2. TruthfulTool(Tool("time", Reads({})))
    BY ToolFields DEF TruthfulTool, ToolSpec, FileToolSpec, FileReadSpec, PdfExtractSpec, SearchToolSpec,
       DiagnosticSpec, AutonomyToolSpec, MemoryToolSpec, HttpToolSpec, ShellSpec, BrowserSpec, TimeSpec
<1>3. TruthfulTool(Tool("memory_store", Writes({"memory"})))
    BY ToolFields DEF TruthfulTool, ToolSpec, FileToolSpec, FileReadSpec, PdfExtractSpec, SearchToolSpec,
       DiagnosticSpec, AutonomyToolSpec, MemoryToolSpec, HttpToolSpec, ShellSpec, BrowserSpec, TimeSpec
<1>4. TruthfulTool(Tool("memory_recall", Reads({"memory"})))
    BY ToolFields DEF TruthfulTool, ToolSpec, FileToolSpec, FileReadSpec, PdfExtractSpec, SearchToolSpec,
       DiagnosticSpec, AutonomyToolSpec, MemoryToolSpec, HttpToolSpec, ShellSpec, BrowserSpec, TimeSpec
<1>5. TruthfulTool(Tool("memory_search", Reads({"memory"})))
    BY ToolFields DEF TruthfulTool, ToolSpec, FileToolSpec, FileReadSpec, PdfExtractSpec, SearchToolSpec,
       DiagnosticSpec, AutonomyToolSpec, MemoryToolSpec, HttpToolSpec, ShellSpec, BrowserSpec, TimeSpec
<1>6. TruthfulTool(Tool("memory_pin", Writes({"memory"})))
    BY ToolFields DEF TruthfulTool, ToolSpec, FileToolSpec, FileReadSpec, PdfExtractSpec, SearchToolSpec,
       DiagnosticSpec, AutonomyToolSpec, MemoryToolSpec, HttpToolSpec, ShellSpec, BrowserSpec, TimeSpec
<1>7. TruthfulTool(Tool("memory_forget", Writes({"memory"})))
    BY ToolFields DEF TruthfulTool, ToolSpec, FileToolSpec, FileReadSpec, PdfExtractSpec, SearchToolSpec,
       DiagnosticSpec, AutonomyToolSpec, MemoryToolSpec, HttpToolSpec, ShellSpec, BrowserSpec, TimeSpec
<1>8. Truthful(<<Tool("pdf_extract", Reads({"filesystem"})),
                Tool("time", Reads({})),
                Tool("memory_store", Writes({"memory"})),
                Tool("memory_recall", Reads({"memory"})),
                Tool("memory_search", Reads({"memory"})),
                Tool("memory_pin", Writes({"memory"})),
                Tool("memory_forget", Writes({"memory"}))>>)
    BY <1>1, <1>2, <1>3, <1>4, <1>5, <1>6, <1>7, Truthful7
<1> QED
    BY <1>8 DEF MemoryTools

LEMMA BrowserToolsTruthful == \A c : Truthful(BrowserTools(c))
<1>1. TruthfulTool(Tool("browser", Decl("network", {"browser"}, "process")))
    BY ToolFields DEF TruthfulTool, ToolSpec, FileToolSpec, FileReadSpec, PdfExtractSpec, SearchToolSpec,
       DiagnosticSpec, AutonomyToolSpec, MemoryToolSpec, HttpToolSpec, ShellSpec, BrowserSpec, TimeSpec
<1>2. TruthfulTool(Tool("browser_screenshot", Decl("network", {"browser"}, "process")))
    BY ToolFields DEF TruthfulTool, ToolSpec, FileToolSpec, FileReadSpec, PdfExtractSpec, SearchToolSpec,
       DiagnosticSpec, AutonomyToolSpec, MemoryToolSpec, HttpToolSpec, ShellSpec, BrowserSpec, TimeSpec
<1>3. Truthful(<<Tool("browser", Decl("network", {"browser"}, "process")),
                Tool("browser_screenshot", Decl("network", {"browser"}, "process"))>>)
    BY <1>1, <1>2, Truthful2
<1>4. Truthful(<<>>)
    BY EmptyIsSeq DEF Truthful
<1> QED
    BY <1>3, <1>4 DEF BrowserTools

LEMMA SopToolsTruthful == \A c : Truthful(SopTools(c))
<1>1. TruthfulTool(Tool("sop_inspect", Reads({})))
    BY ToolFields DEF TruthfulTool, ToolSpec, FileToolSpec, FileReadSpec, PdfExtractSpec, SearchToolSpec,
       DiagnosticSpec, AutonomyToolSpec, MemoryToolSpec, HttpToolSpec, ShellSpec, BrowserSpec, TimeSpec
<1>2. TruthfulTool(Tool("sop_advance", Reads({})))
    BY ToolFields DEF TruthfulTool, ToolSpec, FileToolSpec, FileReadSpec, PdfExtractSpec, SearchToolSpec,
       DiagnosticSpec, AutonomyToolSpec, MemoryToolSpec, HttpToolSpec, ShellSpec, BrowserSpec, TimeSpec
<1>3. Truthful(<<Tool("sop_inspect", Reads({})),
                Tool("sop_advance", Reads({}))>>)
    BY <1>1, <1>2, Truthful2
<1>4. Truthful(<<>>)
    BY EmptyIsSeq DEF Truthful
<1> QED
    BY <1>3, <1>4 DEF SopTools

LEMMA CronToolsTruthful == \A c : Truthful(CronTools(c))
<1>1. TruthfulTool(Tool("cron_list", Reads({})))
    BY ToolFields DEF TruthfulTool, ToolSpec, FileToolSpec, FileReadSpec, PdfExtractSpec, SearchToolSpec,
       DiagnosticSpec, AutonomyToolSpec, MemoryToolSpec, HttpToolSpec, ShellSpec, BrowserSpec, TimeSpec
<1>2. TruthfulTool(Tool("cron_upsert", Writes({})))
    BY ToolFields DEF TruthfulTool, ToolSpec, FileToolSpec, FileReadSpec, PdfExtractSpec, SearchToolSpec,
       DiagnosticSpec, AutonomyToolSpec, MemoryToolSpec, HttpToolSpec, ShellSpec, BrowserSpec, TimeSpec
<1>3. TruthfulTool(Tool("cron_remove", Writes({})))
    BY ToolFields DEF TruthfulTool, ToolSpec, FileToolSpec, FileReadSpec, PdfExtractSpec, SearchToolSpec,
       DiagnosticSpec, AutonomyToolSpec, MemoryToolSpec, HttpToolSpec, ShellSpec, BrowserSpec, TimeSpec
<1>4. Truthful(<<Tool("cron_list", Reads({})),
                Tool("cron_upsert", Writes({})),
                Tool("cron_remove", Writes({}))>>)
    BY <1>1, <1>2, <1>3, Truthful3
<1>5. Truthful(<<>>)
    BY EmptyIsSeq DEF Truthful
<1> QED
    BY <1>4, <1>5 DEF CronTools

LEMMA BuiltinToolsTruthful ==
    ASSUME NEW c
    PROVE  Truthful(BuiltinTools(c))
<1>1. PICK s1 : Joined(DiagnosticTools, FileTools, s1) /\ Truthful(s1)
  <2>1. PICK u : Joined(DiagnosticTools, FileTools, u)
      BY DEF Joined
  <2> QED
      BY DiagnosticToolsTruthful, <2>1, FileToolsTruthful, TruthfulJoin
<1>2. PICK s2 : Joined(s1, OutsideTools, s2) /\ Truthful(s2)
  <2>1. PICK u : Joined(s1, OutsideTools, u)
      BY DEF Joined
  <2> QED
      BY <1>1, <2>1, OutsideToolsTruthful, TruthfulJoin
<1>3. PICK s3 : Joined(s2, BrowserTools(c), s3) /\ Truthful(s3)
  <2>1. PICK u : Joined(s2, BrowserTools(c), u)
      BY DEF Joined
  <2> QED
      BY <1>2, <2>1, BrowserToolsTruthful, TruthfulJoin
<1>4. PICK s4 : Joined(s3, MemoryTools, s4) /\ Truthful(s4)
  <2>1. PICK u : Joined(s3, MemoryTools, u)
      BY DEF Joined
  <2> QED
      BY <1>3, <2>1, MemoryToolsTruthful, TruthfulJoin
<1>5. PICK s5 : Joined(s4, SopTools(c), s5) /\ Truthful(s5)
  <2>1. PICK u : Joined(s4, SopTools(c), u)
      BY DEF Joined
  <2> QED
      BY <1>4, <2>1, SopToolsTruthful, TruthfulJoin
<1>6. PICK s6 : Joined(s5, CronTools(c), s6) /\ Truthful(s6)
  <2>1. PICK u : Joined(s5, CronTools(c), u)
      BY DEF Joined
  <2> QED
      BY <1>5, <2>1, CronToolsTruthful, TruthfulJoin
<1>7. BuiltinTools(c) = s6
    BY <1>1, <1>2, <1>3, <1>4, <1>5, <1>6 DEF BuiltinTools, Joined
<1> QED
    BY <1>6, <1>7

(* What the filter leaves, the groups allow.                               *)
LEMMA ExposedAllowed ==
    ASSUME NEW c, NEW name, NEW d, ~ToolFilterGroupsExclude(c, name, d)
    PROVE  GroupsAllow(c, d)
BY DEF ToolFilterGroupsExclude, GroupsAllow

LEMMA McpAllowed ==
    ASSUME NEW c, NEW s, ~McpExcluded(c, s)
    PROVE  GroupsAllow(c, McpServerSpec(s.transport))
<1>1. CASE s.transport = "stdio"
  <2>1. ~ToolFilterGroupsExclude(c, s.name, Decl("side_effect", {"mcp"}, "process"))
      BY <1>1 DEF McpExcluded
  <2>2. /\ ~StringArrayPropContains(c, "read_only") /\ ~StringArrayPropContains(c, "public_safe")
        /\ ~StringArrayPropContains(c, "no_mcp")
      BY <2>1 DEF ToolFilterGroupsExclude, Decl
  <2>3. McpServerSpec(s.transport).caps = {"mcp", "process"}
      BY <1>1 DEF McpServerSpec, Decl
  <2> QED
      BY <2>2, <2>3 DEF GroupsAllow
<1>2. CASE s.transport # "stdio"
  <2>1. ~ToolFilterGroupsExclude(c, s.name, Decl("network", {"mcp"}, "network"))
      BY <1>2 DEF McpExcluded
  <2>2. /\ ~StringArrayPropContains(c, "read_only") /\ ~StringArrayPropContains(c, "public_safe")
        /\ ~StringArrayPropContains(c, "no_mcp")
      BY <2>1 DEF ToolFilterGroupsExclude, Decl
  <2>3. McpServerSpec(s.transport).caps = {"mcp", "network"}
      BY <1>2 DEF McpServerSpec, Decl
  <2> QED
      BY <2>2, <2>3 DEF GroupsAllow
<1> QED
    BY <1>1, <1>2

-----------------------------------------------------------------------------
(* The invariant of the bootstrap.                                         *)
Kept == {ConfigObject, SecretStore}

BootInv ==
    /\ OwnedShape(owned) /\ cfg \in Configs /\ twice = {}
    /\ DOMAIN boot = {"kind", "at", "i", "phase"} /\ boot.at \in Nat \ {0} /\ boot.i \in Nat
    /\ boot.kind \in {"daemon", "session"} /\ boot.phase \in {"booting", "session", "clearing", "over"}
    /\ boot.kind = "session" => owned.gateway = {}
    /\ boot.phase = "booting" /\ boot.at <= 7 => owned.provider = {}
    /\ boot.phase = "booting" /\ boot.at <= 17 => owned.observer = {}
    /\ boot.phase = "booting" =>
          /\ todo = <<>> /\ Objects(owned) \subseteq live /\ live \subseteq Objects(owned) \cup Kept
          /\ boot.at > 1 \/ owned.gateway # {} \/ owned.tools # <<>> => ConfigObject \in live
    /\ boot.phase = "session" => boot.kind = "session" /\ todo = <<>> /\ live = Objects(owned)
    /\ boot.phase = "clearing" => Asc(todo, 1, 17) /\ live = SetOf(todo)
    /\ boot.phase = "over" => live = {}
    /\ UsersGoFirst /\ ToolsHaveConfig /\ ExposedWithinGroups

LEMMA OnlyGateways ==
    ASSUME NEW o, OwnedShape(o), NEW x \in Objects(o) \cup Kept, x.kind = "gateway"
    PROVE  o.gateway # {}
<1>1. x \notin Kept
    BY OneFields DEF Kept, ConfigObject, SecretStore
<1>2. /\ \A z \in o.memory : z.kind = "memory"
      /\ \A z \in o.policy : z.kind = "policy"
      /\ \A z \in o.estop : z.kind = "estop"
      /\ \A z \in o.agent : z.kind = "agent"
      /\ \A z \in o.transcriber : z.kind = "transcriber"
      /\ \A z \in o.tts : z.kind = "tts"
      /\ \A z \in o.orchestrator : z.kind = "orchestrator"
      /\ \A z \in o.delivery : z.kind = "delivery"
      /\ \A z \in o.observer : z.kind = "observer"
      /\ \A z \in o.heartbeat : z.kind = "heartbeat"
      /\ \A z \in o.cron : z.kind = "cron"
    BY MemberKind DEF Singles
<1> QED
    BY <1>1, <1>2, MemberKind DEF Objects

LEMMA UsersWithin ==
    ASSUME NEW c, NEW o, NEW L, OwnedShape(o), Objects(o) \subseteq L, L \subseteq Objects(o) \cup Kept,
           o.gateway # {} => ConfigObject \in L
    PROVE  \A x \in L : Uses(c, o, x) \subseteq L
<1>1. ASSUME NEW x \in L, NEW y \in Uses(c, o, x) PROVE y \in L
  <2>1. y \in Objects(o) \/ (y = ConfigObject /\ x.kind = "gateway")
      BY <1>1, UsesRank
  <2>2. CASE x.kind = "gateway"
      BY <1>1, <2>1, <2>2, OnlyGateways
  <2> QED
      BY <2>1, <2>2
<1> QED
    BY <1>1

(* Only a tool of the list is a tool.                                      *)
LEMMA ToolsWithin ==
    ASSUME NEW o, NEW L, OwnedShape(o), L \subseteq Objects(o) \cup Kept, o.tools # <<>> => ConfigObject \in L
    PROVE  \A x \in L : x.kind = "tool" => ConfigObject \in L
<1>1. ASSUME NEW x \in L, x.kind = "tool" PROVE o.tools # <<>>
  <2>1. x \notin Kept
      BY <1>1, OneFields DEF Kept, ConfigObject, SecretStore
  <2>2. /\ \A z \in o.memory : z.kind = "memory"
        /\ \A z \in o.policy : z.kind = "policy"
        /\ \A z \in o.estop : z.kind = "estop"
        /\ \A z \in o.agent : z.kind = "agent"
        /\ \A z \in o.transcriber : z.kind = "transcriber"
        /\ \A z \in o.tts : z.kind = "tts"
        /\ \A z \in o.orchestrator : z.kind = "orchestrator"
        /\ \A z \in o.gateway : z.kind = "gateway"
        /\ \A z \in o.delivery : z.kind = "delivery"
        /\ \A z \in o.observer : z.kind = "observer"
        /\ \A z \in o.heartbeat : z.kind = "heartbeat"
        /\ \A z \in o.cron : z.kind = "cron"
      BY MemberKind DEF Singles
  <2>3. x \in SetOf(o.tools)
      BY <1>1, <2>1, <2>2, MemberKind DEF Objects
  <2> QED
      BY <2>3, EmptyIsSeq DEF SetOf
<1> QED
    BY <1>1

(* What is destroyed after boot_owned_clear.                               *)
LEMMA LeftOrder ==
    ASSUME NEW kind, NEW o, OwnedShape(o)
    PROVE  /\ Asc(ClearAfter(kind, o), 1, 17)
           /\ SetOf(ClearAfter(kind, o)) = Objects(o) \cup (live \cap Kept)
<1>1. /\ ConfigObject.kind = "config" /\ SecretStore.kind = "secret_store"
      /\ Rank(ConfigObject) = 17 /\ Rank(SecretStore) = 17 /\ ConfigObject # SecretStore
  <2>1. ConfigObject.kind = "config" /\ SecretStore.kind = "secret_store"
      BY OneFields DEF ConfigObject, SecretStore
  <2> QED
      BY <2>1 DEF Rank
<1>2. ASSUME NEW x, Rank(x) = 17 PROVE Asc(IfMade(x), 17, 17) /\ SetOf(IfMade(x)) = live \cap {x}
  <2>1. CASE x \notin live
    <3>1. IfMade(x) = <<>>
        BY <2>1 DEF IfMade
    <3> QED
        BY <2>1, <3>1, EmptyIsSeq DEF Asc, SetOf
  <2>2. CASE x \in live
    <3>1. IfMade(x) = <<x>>
        BY <2>2 DEF IfMade
    <3>2. <<x>> \in Seq({x}) /\ DOMAIN <<x>> = {1} /\ <<x>>[1] = x
        OBVIOUS
    <3>3. PICK t : t = <<x>> /\ IsSeq(t) /\ DOMAIN t = {1} /\ t[1] = x
        BY <3>2 DEF IsSeq
    <3>4. \A i \in DOMAIN t : i = 1 /\ Rank(t[i]) = 17
        BY <1>2, <3>3
    <3>5. Asc(t, 17, 17)
        BY <3>3, <3>4 DEF Asc
    <3>6. SetOf(t) = {x}
        BY <3>3 DEF SetOf
    <3> QED
        BY <2>2, <3>1, <3>3, <3>5, <3>6
  <2> QED
      BY <2>1, <2>2
<1>3. PICK a, b : /\ a = IfMade(ConfigObject) /\ Asc(a, 17, 17) /\ SetOf(a) = live \cap {ConfigObject}
                  /\ b = IfMade(SecretStore) /\ Asc(b, 17, 17) /\ SetOf(b) = live \cap {SecretStore}
    BY <1>1, <1>2
<1>4. PICK s : /\ s = IF kind = "daemon" THEN a \o b ELSE b \o a
               /\ Asc(s, 17, 17) /\ SetOf(s) = live \cap Kept
  <2>1. SetOf(a) \cap SetOf(b) = {} /\ SetOf(a) \cup SetOf(b) = live \cap Kept
      BY <1>1, <1>3 DEF Kept
  <2>2. Asc(a \o b, 17, 17) /\ SetOf(a \o b) = SetOf(a) \cup SetOf(b)
      BY <1>3, <2>1, AscJoin
  <2>3. Asc(b \o a, 17, 17) /\ SetOf(b \o a) = SetOf(b) \cup SetOf(a)
      BY <1>3, <2>1, AscJoin
  <2> QED
      BY <2>1, <2>2, <2>3
<1>5. ClearAfter(kind, o) = BootOwnedClear(o) \o s
    BY <1>3, <1>4 DEF ClearAfter
<1>6. PICK t, u : t = BootOwnedClear(o) /\ Joined(t, s, u) /\ u = ClearAfter(kind, o)
    BY <1>5 DEF Joined
<1>7. Asc(t, 1, 16) /\ SetOf(t) = Objects(o)
    BY <1>6, ClearOrder
<1> QED
    BY <1>4, <1>6, <1>7, AscNext

(* What a step has to leave in the members and among the objects.          *)
Fits(o, L) ==
    /\ OwnedShape(o) /\ Objects(o) \subseteq L /\ L \subseteq Objects(o) \cup Kept
    /\ \A i \in DOMAIN o.tools : GroupsAllow(cfg, SpecOf(o.tools[i]))
    /\ o.gateway # {} => ConfigObject \in L /\ boot.kind # "session"
    /\ o.tools # <<>> => ConfigObject \in L
    /\ boot.at < 7 => o.provider = {}
    /\ boot.at < 17 => o.observer = {}

LEMMA EndsKeeps ==
    ASSUME BootInv, boot.phase = "booting", NEW ok \in BOOLEAN, NEW o, NEW made, Ends(ok, o, made),
           Fits(o, live \cup made), ok => ConfigObject \in live \cup made, ~ok => made \cap Kept = {}
    PROVE  BootInv'
<1>0. /\ owned' = o /\ live' = live \cup made /\ cfg' = cfg /\ twice' = {} /\ cfg \in Configs
      /\ OwnedShape(o) /\ (boot.kind = "session" => o.gateway = {})
      /\ DOMAIN boot = {"kind", "at", "i", "phase"} /\ boot.at \in Nat \ {0} /\ boot.i \in Nat
      /\ boot.kind \in {"daemon", "session"}
    BY DEF Ends, BootInv, Fits
<1>1. ExposedWithinGroups'
    BY <1>0 DEF Fits, ExposedWithinGroups
<1>2. UsersGoFirst'
  <2>1. \A x \in live \cup made : Uses(cfg, o, x) \subseteq live \cup made
      BY UsersWithin DEF Fits
  <2> QED
      BY <1>0, <2>1 DEF UsersGoFirst
<1>3. ToolsHaveConfig'
  <2>1. \A x \in live \cup made : x.kind = "tool" => ConfigObject \in live \cup made
      BY ToolsWithin DEF Fits
  <2> QED
      BY <1>0, <2>1 DEF ToolsHaveConfig
<1>4. CASE ok
  <2>1. boot' = [boot EXCEPT !.at = boot.at + 1, !.i = 0] /\ todo' = todo /\ todo = <<>>
      BY <1>4 DEF Ends, BootInv
  <2>2. /\ DOMAIN boot' = {"kind", "at", "i", "phase"} /\ boot'.at = boot.at + 1 /\ boot'.i = 0
        /\ boot'.kind = boot.kind /\ boot'.phase = "booting"
      BY <1>0, <2>1
  <2>3. (boot'.at <= 7 => o.provider = {}) /\ (boot'.at <= 17 => o.observer = {})
      BY <1>0, <2>2 DEF Fits
  <2> QED
      BY <1>0, <1>1, <1>2, <1>4, <1>3, <2>1, <2>2, <2>3 DEF BootInv, Fits
<1>5. CASE ~ok
  <2>1. boot' = [boot EXCEPT !.phase = "clearing"] /\ todo' = ClearAfter(boot.kind, o)
      BY <1>5 DEF Ends
  <2>2. /\ DOMAIN boot' = {"kind", "at", "i", "phase"} /\ boot'.at = boot.at /\ boot'.i = boot.i
        /\ boot'.kind = boot.kind /\ boot'.phase = "clearing"
      BY <1>0, <2>1
  <2>3. PICK t : t = ClearAfter(boot.kind, o) /\ Asc(t, 1, 17) /\ SetOf(t) = Objects(o) \cup (live \cap Kept)
      BY <1>0, LeftOrder
  <2>4. SetOf(t) = live \cup made
      BY <1>5, <2>3 DEF Fits
  <2> QED
      BY <1>0, <1>1, <1>2, <1>3, <2>1, <2>2, <2>3, <2>4 DEF BootInv
<1> QED
    BY <1>4, <1>5

LEMMA ContinuesKeeps ==
    ASSUME BootInv, boot.phase = "booting", boot.at > 1, NEW o, NEW made, Continues(o, made), Fits(o, live
           \cup made),
           o.provider = owned.provider, o.observer = owned.observer
    PROVE  BootInv'
<1>0. /\ owned' = o /\ live' = live \cup made /\ cfg' = cfg /\ twice' = {} /\ cfg \in Configs
      /\ OwnedShape(o) /\ (boot.kind = "session" => o.gateway = {})
      /\ DOMAIN boot = {"kind", "at", "i", "phase"} /\ boot.at \in Nat \ {0} /\ boot.i \in Nat
      /\ boot.kind \in {"daemon", "session"} /\ todo' = <<>> /\ boot' = [boot EXCEPT !.i = boot.i + 1]
      /\ ConfigObject \in live
    BY DEF Continues, BootInv, Fits
<1>1. ExposedWithinGroups'
    BY <1>0 DEF Fits, ExposedWithinGroups
<1>2. UsersGoFirst'
  <2>1. \A x \in live \cup made : Uses(cfg, o, x) \subseteq live \cup made
      BY UsersWithin DEF Fits
  <2> QED
      BY <1>0, <2>1 DEF UsersGoFirst
<1>3. ToolsHaveConfig'
    BY <1>0 DEF ToolsHaveConfig
<1>4. /\ DOMAIN boot' = {"kind", "at", "i", "phase"} /\ boot'.at = boot.at /\ boot'.i = boot.i + 1
      /\ boot'.kind = boot.kind /\ boot'.phase = "booting"
    BY <1>0
<1>5. (boot'.at <= 7 => o.provider = {}) /\ (boot'.at <= 17 => o.observer = {})
    BY <1>4 DEF BootInv
<1> QED
    BY <1>0, <1>1, <1>2, <1>4, <1>5, <1>3 DEF BootInv, Fits

(* Only the first step can be one before the configuration is there.       *)
LEMMA AtLaterStep ==
    ASSUME BootInv, NEW step, AtStep(step), step # "config"
    PROVE  boot.phase = "booting" /\ boot.at > 1 /\ ConfigObject \in live
<1>1. Steps[1] = "config"
    BY DEF Steps, DaemonSteps, SessionSteps, CommonSteps
<1> QED
    BY <1>1 DEF AtStep, BootInv

LEMMA SameFits ==
    ASSUME BootInv, boot.phase = "booting"
    PROVE  Fits(owned, live \cup {})
<1>1. live \cup {} = live
    OBVIOUS
<1> QED
    BY <1>1 DEF BootInv, Fits, ExposedWithinGroups

LEMMA ChecksKeeps ==
    ASSUME BootInv, NEW step, AtStep(step), step # "config", NEW ok \in BOOLEAN, Checks(ok)
    PROVE  BootInv'
<1>1. boot.phase = "booting" /\ ConfigObject \in live
    BY AtLaterStep
<1>2. Ends(ok, owned, {})
    BY DEF Checks
<1> QED
    BY <1>1, <1>2, SameFits, EndsKeeps

LEMMA MemberFits ==
    ASSUME BootInv, boot.phase = "booting", NEW m \in Singles \ {"gateway", "observer"}
    PROVE  Fits([owned EXCEPT ![m] = {One(m)}], live \cup {One(m)})
<1>1. PICK o, q, x : o = owned /\ x = One(m) /\ q = [o EXCEPT ![m] = {x}]
    OBVIOUS
<1>2. OwnedShape(o) /\ DOMAIN o = Members /\ m \in Members
    BY <1>1 DEF BootInv, OwnedShape, Members
<1>3. DOMAIN q = Members /\ q[m] = {x} /\ \A k \in Members : k # m => q[k] = o[k]
    BY <1>1, <1>2
<1>4. q.handles = o.handles /\ q.tools = o.tools /\ q.channels = o.channels /\ q.provider = o.provider
    BY <1>3 DEF Members, Singles
<1>5. q.gateway = o.gateway /\ q.observer = o.observer
    BY <1>3 DEF Members, Singles
<1>6. \A k \in Singles : q[k] = {} \/ q[k] = {One(k)}
    BY <1>1, <1>2, <1>3 DEF OwnedShape, Members
<1>7. OwnedShape(q)
    BY <1>2, <1>3, <1>4, <1>6 DEF OwnedShape
<1>8. \A k \in Singles : q[k] \subseteq o[k] \cup {x} /\ o[k] \subseteq q[k]
    BY <1>1, <1>2, <1>3 DEF OwnedShape, Members
<1>9. x \in Objects(q)
  <2>1. \A k \in Singles : q[k] \subseteq Objects(q)
      BY DEF Singles, Objects
  <2> QED
      BY <1>3, <2>1
<1>10. Objects(q) \subseteq Objects(o) \cup {x}
    BY <1>4, <1>8 DEF Singles, Objects
<1>11. Objects(o) \subseteq Objects(q)
    BY <1>4, <1>8 DEF Singles, Objects
<1>12. Fits(o, live)
    BY <1>1 DEF BootInv, Fits, ExposedWithinGroups
<1> QED
    BY <1>1, <1>4, <1>5, <1>7, <1>9, <1>10, <1>11, <1>12 DEF Fits

LEMMA MemberNotKept == \A m \in Singles \cup {"provider"} : {One(m)} \cap Kept = {}
<1>1. ConfigObject.kind = "config" /\ SecretStore.kind = "secret_store"
    BY OneFields DEF ConfigObject, SecretStore
<1>2. \A m \in Singles \cup {"provider"} : One(m).kind = m
    BY OneFields
<1> QED
    BY <1>1, <1>2 DEF Kept, Singles

LEMMA MadeKeeps ==
    ASSUME BootInv, NEW step, AtStep(step), step # "config", NEW ok \in BOOLEAN, NEW m \in Singles \
           {"gateway", "observer"},
           Ends(ok, [owned EXCEPT ![m] = {One(m)}], {One(m)})
    PROVE  BootInv'
<1>1. boot.phase = "booting" /\ ConfigObject \in live
    BY AtLaterStep
<1>2. Fits([owned EXCEPT ![m] = {One(m)}], live \cup {One(m)}) /\ {One(m)} \cap Kept = {}
    BY <1>1, MemberFits, MemberNotKept
<1> QED
    BY <1>1, <1>2, EndsKeeps

LEMMA CreatesKeeps ==
    ASSUME BootInv, NEW step, AtStep(step), step # "config", NEW ok \in BOOLEAN, NEW m \in Singles \
           {"gateway", "observer"},
           Creates(ok, m)
    PROVE  BootInv'
<1>1. CASE ok
  <2>1. Ends(TRUE, [owned EXCEPT ![m] = {One(m)}], {One(m)})
      BY <1>1 DEF Creates
  <2> QED
      BY <2>1, MadeKeeps
<1>2. CASE ~ok
  <2>1. Checks(FALSE)
      BY <1>2 DEF Creates, Checks
  <2> QED
      BY <2>1, ChecksKeeps
<1> QED
    BY <1>1, <1>2

(* One more object at the end of a member that is a list.                  *)
LEMMA NumberedAdd ==
    ASSUME NEW s, NEW kind, Numbered(s, kind), NEW x, NEW t, NEW n, Added(s, x, t, n), x.kind = kind, x.n = n
    PROVE  Numbered(t, kind) /\ SetOf(t) = SetOf(s) \cup {x} /\ Len(t) = Len(s) + 1
<1>2. IsSeq(s)
    BY DEF Numbered
<1>3. Longer(s, x, t, n) /\ n = Len(s) + 1
    BY <1>2, SeqAdd DEF Added
<1>4. /\ IsSeq(t) /\ DOMAIN t = DOMAIN s \cup {n} /\ t[n] = x /\ \A j \in DOMAIN s : t[j] = s[j]
    BY <1>3 DEF Longer
<1>5. Numbered(t, kind)
    BY <1>3, <1>4 DEF Numbered
<1>6. SetOf(t) = SetOf(s) \cup {x}
    BY <1>4 DEF SetOf
<1>7. Len(t) = Len(s) + 1
  <2>1. PICK k \in Nat, l \in Nat : k = Len(s) /\ DOMAIN s = 1..k /\ l = Len(t) /\ DOMAIN t = 1..l
      BY <1>2, <1>4, SeqDomain
  <2>2. 1..l = 1..k \cup {k + 1}
      BY <1>3, <1>4, <2>1
  <2> QED
      BY <2>1, <2>2
<1> QED
    BY <1>5, <1>6, <1>7

LEMMA ObjFields == \A kind, n, name, from : /\ Obj(kind, n, name, from).kind = kind
                                           /\ Obj(kind, n, name, from).n = n
                                           /\ Obj(kind, n, name, from).name = name
                                           /\ Obj(kind, n, name, from).from = from
BY Zenon DEF Obj

LEMMA HandleFits ==
    ASSUME BootInv, boot.phase = "booting", NEW h, h.kind = "provider", NEW t, NEW n, Added(owned.handles,
           h, t, n),
           h.n = n, NEW cred, owned.provider = {}, NEW q, q = [owned EXCEPT !.handles = t, !.credentials = cred]
    PROVE  Fits(q, live \cup {h})
<1>1. PICK o : o = owned /\ OwnedShape(o) /\ DOMAIN o = Members /\ Fits(o, live) /\ o.provider = {}
    BY DEF BootInv, OwnedShape, Fits, ExposedWithinGroups
<1>3. Numbered(t, "provider") /\ SetOf(t) = SetOf(o.handles) \cup {h}
  <2>1. Added(o.handles, h, t, n) /\ Numbered(o.handles, "provider")
      BY <1>1 DEF OwnedShape
  <2> QED
      BY <2>1, NumberedAdd
<1>4. /\ DOMAIN q = Members /\ q.handles = t
      /\ \A k \in Members : k \notin {"handles", "credentials"} => q[k] = o[k]
    BY <1>1 DEF Members, Singles
<1>5. /\ q.tools = o.tools /\ q.channels = o.channels /\ q.provider = o.provider
      /\ \A k \in Singles : q[k] = o[k]
    BY <1>4 DEF Members, Singles
<1>6. OwnedShape(q)
    BY <1>1, <1>3, <1>4, <1>5 DEF OwnedShape
<1>7. Objects(q) = Objects(o) \cup {h}
    BY <1>3, <1>4, <1>5 DEF Objects, Singles
<1>8. q.gateway = o.gateway /\ q.observer = o.observer
    BY <1>5 DEF Singles
<1> QED
    BY <1>1, <1>5, <1>6, <1>7, <1>8 DEF Fits

LEMMA ChannelFits ==
    ASSUME BootInv, boot.phase = "booting", NEW x, x.kind = "channel", NEW t, NEW n, Added(owned.channels,
           x, t, n),
           x.n = n, NEW q, q = [owned EXCEPT !.channels = t]
    PROVE  Fits(q, live \cup {x}) /\ q.provider = owned.provider /\ q.observer = owned.observer
<1>1. PICK o : o = owned /\ OwnedShape(o) /\ DOMAIN o = Members /\ Fits(o, live)
    BY DEF BootInv, OwnedShape, Fits, ExposedWithinGroups
<1>2. Numbered(t, "channel") /\ SetOf(t) = SetOf(o.channels) \cup {x}
  <2>1. Added(o.channels, x, t, n) /\ Numbered(o.channels, "channel")
      BY <1>1 DEF OwnedShape
  <2> QED
      BY <2>1, NumberedAdd
<1>3. DOMAIN q = Members /\ q.channels = t /\ \A k \in Members : k # "channels" => q[k] = o[k]
    BY <1>1 DEF Members, Singles
<1>4. /\ q.tools = o.tools /\ q.handles = o.handles /\ q.provider = o.provider
      /\ \A k \in Singles : q[k] = o[k]
    BY <1>3 DEF Members, Singles
<1>5. OwnedShape(q)
    BY <1>1, <1>2, <1>3, <1>4 DEF OwnedShape
<1>6. Objects(q) = Objects(o) \cup {x}
    BY <1>2, <1>3, <1>4 DEF Objects, Singles
<1>7. q.gateway = o.gateway /\ q.observer = o.observer
    BY <1>4 DEF Singles
<1> QED
    BY <1>1, <1>4, <1>5, <1>6, <1>7 DEF Fits

(* More tools after those there are, all of them allowed.                  *)
Extends(s, t) == Len(s) <= Len(t) /\ \A i \in DOMAIN s : i \in DOMAIN t /\ t[i] = s[i]

LEMMA KeepsToolsKeeps ==
    ASSUME BootInv, AtStep("tools"), NEW t, KeepsTools(t), Numbered(t, "tool"), Extends(owned.tools, t),
           \A i \in DOMAIN t : i > Len(owned.tools) => GroupsAllow(cfg, SpecOf(t[i]))
    PROVE  BootInv'
<1>1. boot.phase = "booting" /\ boot.at > 1
    BY AtLaterStep
<1>2. PICK o : o = owned /\ OwnedShape(o) /\ DOMAIN o = Members /\ Fits(o, live)
    BY <1>1 DEF BootInv, OwnedShape, Fits, ExposedWithinGroups
<1>3. PICK k \in Nat, l \in Nat : /\ k = Len(o.tools) /\ DOMAIN o.tools = 1..k
                                  /\ l = Len(t) /\ DOMAIN t = 1..l /\ k <= l
    BY <1>2, SeqDomain DEF OwnedShape, Numbered, Extends
<1>4. PICK q, made : /\ q = [o EXCEPT !.tools = t] /\ made = {t[i] : i \in (k + 1)..l} /\ Continues(q, made)
    BY <1>2, <1>3 DEF KeepsTools
<1>5. DOMAIN q = Members /\ q.tools = t /\ \A j \in Members : j # "tools" => q[j] = o[j]
    BY <1>2, <1>4 DEF Members, Singles
<1>6. /\ q.channels = o.channels /\ q.handles = o.handles /\ q.provider = o.provider
      /\ \A j \in Singles : q[j] = o[j]
    BY <1>5 DEF Members, Singles
<1>7. OwnedShape(q)
    BY <1>2, <1>5, <1>6 DEF OwnedShape
<1>8. SetOf(t) = SetOf(o.tools) \cup made
  <2>1. ASSUME NEW i \in 1..l PROVE t[i] \in SetOf(o.tools) \cup made
    <3>1. CASE i <= k
        BY <1>2, <1>3, <3>1 DEF Extends, SetOf
    <3>2. CASE i > k
        BY <1>4, <3>2
    <3> QED
        BY <3>1, <3>2
  <2>2. SetOf(o.tools) \subseteq SetOf(t)
      BY <1>2 DEF Extends, SetOf
  <2>3. made \subseteq SetOf(t)
      BY <1>3, <1>4 DEF SetOf
  <2>4. SetOf(t) \subseteq SetOf(o.tools) \cup made
      BY <1>3, <2>1 DEF SetOf
  <2> QED
      BY <2>2, <2>3, <2>4
<1>9. Objects(q) = Objects(o) \cup made
    BY <1>5, <1>6, <1>8 DEF Objects, Singles
<1>10. \A i \in DOMAIN t : GroupsAllow(cfg, SpecOf(t[i]))
  <2>1. ASSUME NEW i \in 1..k PROVE GroupsAllow(cfg, SpecOf(t[i]))
    <3>1. GroupsAllow(cfg, SpecOf(o.tools[i])) /\ t[i] = o.tools[i]
        BY <1>2, <1>3 DEF Fits, Extends
    <3> QED
        BY <3>1
  <2> QED
      BY <1>2, <1>3, <2>1
<1>11. q.gateway = o.gateway /\ q.observer = o.observer
    BY <1>6 DEF Singles
<1>12. Fits(q, live \cup made)
  <2>1. ConfigObject \in live
      BY AtLaterStep
  <2>2. /\ boot.at < 7 => q.provider = {}
        /\ boot.at < 17 => q.observer = {}
        /\ q.gateway # {} => boot.kind # "session"
      BY <1>2, <1>6, <1>11 DEF Fits
  <2>3. Objects(q) \subseteq live \cup made /\ live \cup made \subseteq Objects(q) \cup Kept
      BY <1>2, <1>9 DEF Fits
  <2>4. \A i \in DOMAIN q.tools : GroupsAllow(cfg, SpecOf(q.tools[i]))
      BY <1>5, <1>10
  <2> QED
      BY <1>7, <2>1, <2>2, <2>3, <2>4 DEF Fits
<1> QED
    BY <1>1, <1>2, <1>4, <1>6, <1>11, <1>12, ContinuesKeeps

LEMMA ProviderFits ==
    ASSUME BootInv, boot.phase = "booting", boot.at = 7, NEW x, NEW q, q = [owned EXCEPT !.provider = {x}],
           x = One("provider") \/ (Len(owned.handles) = 1 /\ x = owned.handles[1])
    PROVE  Fits(q, live \cup {x})
<1>1. PICK o : o = owned /\ OwnedShape(o) /\ DOMAIN o = Members /\ Fits(o, live) /\ o.provider = {}
    BY DEF BootInv, OwnedShape, Fits, ExposedWithinGroups
<1>2. DOMAIN q = Members /\ q.provider = {x} /\ \A k \in Members : k # "provider" => q[k] = o[k]
    BY <1>1 DEF Members, Singles
<1>3. /\ q.tools = o.tools /\ q.handles = o.handles /\ q.channels = o.channels
      /\ \A k \in Singles : q[k] = o[k]
    BY <1>2 DEF Members, Singles
<1>4. OwnedShape(q)
    BY <1>1, <1>2, <1>3 DEF OwnedShape
<1>5. Objects(q) = Objects(o) \cup {x}
    BY <1>1, <1>2, <1>3 DEF Objects, Singles
<1>6. q.gateway = o.gateway /\ q.observer = o.observer
    BY <1>3 DEF Singles
<1>7. /\ \A i \in DOMAIN q.tools : GroupsAllow(cfg, SpecOf(q.tools[i]))
      /\ q.tools # <<>> => ConfigObject \in live
      /\ q.gateway # {} => ConfigObject \in live /\ boot.kind # "session"
    BY <1>1, <1>3, <1>6 DEF Fits
<1>8. Objects(q) \subseteq live \cup {x} /\ live \cup {x} \subseteq Objects(q) \cup Kept
    BY <1>1, <1>5 DEF Fits
<1>9. ~(boot.at < 7) /\ (boot.at < 17 => q.observer = {})
    BY <1>1, <1>6 DEF Fits
<1> QED
    BY <1>4, <1>7, <1>8, <1>9 DEF Fits

-----------------------------------------------------------------------------
(* The places of the steps that matter.                                    *)
LEMMA CommonPlaces ==
    /\ IsSeq(CommonSteps) /\ Len(CommonSteps) = 12
    /\ \A i \in 1..12 : CommonSteps[i] = "provider" => i = 7
    /\ \A i \in 1..12 : CommonSteps[i] # "gateway" /\ CommonSteps[i] # "run"
<1>1. PICK s : s = CommonSteps
    OBVIOUS
<1>2. IsSeq(s) /\ DOMAIN s = 1..12
  <2>1. s \in Seq({"config", "secrets", "workspace", "policy", "estop", "identity", "provider", "memory",
        "cron",
                  "tools", "model", "agent"})
      BY <1>1 DEF CommonSteps
  <2>2. DOMAIN s = 1..12
      BY <1>1 DEF CommonSteps
  <2> QED
      BY <2>1, <2>2 DEF IsSeq
<1>3. /\ s[1] = "config" /\ s[2] = "secrets" /\ s[3] = "workspace" /\ s[4] = "policy" /\ s[5] = "estop"
      /\ s[6] = "identity" /\ s[7] = "provider" /\ s[8] = "memory" /\ s[9] = "cron" /\ s[10] = "tools"
      /\ s[11] = "model" /\ s[12] = "agent"
    BY <1>1 DEF CommonSteps
<1>4. \A i \in 1..12 : i \in {1, 2, 3, 4, 5, 6, 7, 8, 9, 10, 11, 12}
    OBVIOUS
<1>5. ASSUME NEW i \in 1..12 PROVE (s[i] = "provider" => i = 7) /\ s[i] # "gateway" /\ s[i] # "run"
    BY <1>3, <1>4
<1>6. Len(s) = 12
  <2>1. PICK l \in Nat : l = Len(s) /\ 1..12 = 1..l
      BY <1>2, SeqDomain
  <2> QED
      BY <2>1
<1> QED
    BY <1>1, <1>2, <1>5, <1>6

LEMMA DaemonPlaces ==
    /\ Len(DaemonSteps) = 20
    /\ \A i \in 1..20 : (DaemonSteps[i] = "provider" => i = 7) /\ (DaemonSteps[i] = "gateway" => i = 17)
<1>1. PICK s, t, u : /\ s = CommonSteps /\ u = DaemonSteps /\ Joined(s, t, u)
                     /\ t = <<"channels", "transcriber", "tts", "orchestrator", "gateway", "delivery",
                              "heartbeat", "run">>
    BY DEF DaemonSteps, Joined
<1>2. IsSeq(t) /\ DOMAIN t = 1..8
  <2>1. t \in Seq({"channels", "transcriber", "tts", "orchestrator", "gateway", "delivery", "heartbeat", "run"})
      BY <1>1
  <2>2. DOMAIN t = 1..8
      BY <1>1
  <2> QED
      BY <2>1, <2>2 DEF IsSeq
<1>3. /\ t[1] = "channels" /\ t[2] = "transcriber" /\ t[3] = "tts" /\ t[4] = "orchestrator"
      /\ t[5] = "gateway" /\ t[6] = "delivery" /\ t[7] = "heartbeat" /\ t[8] = "run"
    BY <1>1
<1>4. ASSUME NEW i \in 1..8 PROVE t[i] # "provider" /\ (t[i] = "gateway" => i = 5)
  <2>1. i \in {1, 2, 3, 4, 5, 6, 7, 8}
      OBVIOUS
  <2> QED
      BY <1>3, <2>1
<1>5. /\ Len(u) = 20 /\ \A i \in 1..12 : u[i] = s[i]
      /\ \A i \in 1..8 : u[12 + i] = t[i]
  <2>0. Len(s) = 12
      BY <1>1, CommonPlaces
  <2>3. IsSeq(s) /\ IsSeq(t) /\ Joined(s, t, u)
      BY <1>1, <1>2, CommonPlaces
  <2>1. Len(t) = 8
    <3>1. PICK l \in Nat : l = Len(t) /\ 1..8 = 1..l
        BY <1>2, SeqDomain
    <3> QED
        BY <3>1
  <2>2. /\ IsSeq(u) /\ DOMAIN u = 1..(Len(s) + Len(t)) /\ Len(u) = Len(s) + Len(t)
        /\ \A i \in 1..Len(s) : u[i] = s[i]
        /\ \A i \in 1..Len(t) : u[Len(s) + i] = t[i]
      BY <2>3, SeqJoin
  <2> QED
      BY <2>0, <2>1, <2>2
<1>6. ASSUME NEW i \in 1..20 PROVE (u[i] = "provider" => i = 7) /\ (u[i] = "gateway" => i = 17)
  <2>1. CASE i <= 12
      BY <1>1, <1>5, <2>1, CommonPlaces
  <2>2. CASE i > 12
    <3>1. i - 12 \in 1..8 /\ 12 + (i - 12) = i
        BY <2>2
    <3> QED
        BY <1>4, <1>5, <3>1
  <2> QED
      BY <2>1, <2>2
<1> QED
    BY <1>1, <1>5, <1>6

LEMMA StepPlaces ==
    ASSUME BootInv
    PROVE  /\ AtStep("provider") => boot.at = 7
           /\ AtStep("gateway") => boot.kind = "daemon" /\ boot.at = 17
           /\ AtStep("run") => boot.kind = "daemon"
<1>1. boot.at \in Nat \ {0} /\ boot.kind \in {"daemon", "session"}
    BY DEF BootInv
<1>2. CASE boot.kind = "daemon"
  <2>1. Steps = DaemonSteps
      BY <1>2 DEF Steps
  <2>2. ASSUME NEW m, AtStep(m) PROVE boot.at \in 1..20 /\ DaemonSteps[boot.at] = m
      BY <1>1, <2>1, <2>2, DaemonPlaces DEF AtStep
  <2> QED
      BY <1>2, <2>2, DaemonPlaces
<1>3. CASE boot.kind = "session"
  <2>1. Steps = CommonSteps
      BY <1>3 DEF Steps, SessionSteps
  <2>2. ASSUME NEW m, AtStep(m) PROVE boot.at \in 1..12 /\ CommonSteps[boot.at] = m
      BY <1>1, <2>1, <2>2, CommonPlaces DEF AtStep
  <2> QED
      BY <2>2, CommonPlaces
<1> QED
    BY <1>1, <1>2, <1>3

(* The steps before the tools.                                             *)
LEMMA ConfigKeeps ==
    ASSUME BootInv, LoadConfig
    PROVE  BootInv'
<1>1. PICK ok \in BOOLEAN : Ends(ok, owned, IF ok THEN {ConfigObject} ELSE {})
    BY DEF LoadConfig, ReadFile
<1>2. boot.phase = "booting"
    BY DEF LoadConfig, AtStep
<1>3. Fits(owned, live) /\ Fits(owned, live \cup {ConfigObject})
    BY <1>2 DEF BootInv, Fits, ExposedWithinGroups, Kept
<1>4. CASE ok
    BY <1>1, <1>2, <1>3, <1>4, EndsKeeps
<1>5. CASE ~ok
    BY <1>1, <1>2, <1>5, SameFits, EndsKeeps
<1> QED
    BY <1>4, <1>5

LEMMA SecretsKeeps ==
    ASSUME BootInv, AttachSecretStore
    PROVE  BootInv'
<1>1. AtStep("secrets")
    BY DEF AttachSecretStore
<1>2. boot.phase = "booting" /\ ConfigObject \in live
    BY <1>1, AtLaterStep
<1>3. CASE \E ok \in BOOLEAN : Checks(ok)
    BY <1>1, <1>3, ChecksKeeps
<1>4. ASSUME NEW ok \in BOOLEAN, Ends(ok, owned, IF ok THEN {SecretStore} ELSE {}) PROVE BootInv'
  <2>1. Fits(owned, live \cup {SecretStore})
      BY <1>2 DEF BootInv, Fits, ExposedWithinGroups, Kept
  <2>2. CASE ok
      BY <1>2, <1>4, <2>1, <2>2, EndsKeeps
  <2>3. CASE ~ok
      BY <1>2, <1>4, <2>3, SameFits, EndsKeeps
  <2> QED
      BY <2>2, <2>3
<1> QED
    BY <1>3, <1>4 DEF AttachSecretStore

LEMMA NamedProviderFields == \A p, n : NamedProvider(p, n).kind = "provider" /\ NamedProvider(p, n).n = n
BY Zenon DEF NamedProvider, Obj

LEMMA NamedProviderKeeps ==
    ASSUME BootInv, CreateNamedProvider
    PROVE  BootInv'
<1>1. AtStep("provider") /\ boot.at = 7
    BY StepPlaces DEF CreateNamedProvider
<1>2. boot.phase = "booting" /\ boot.at > 1
    BY <1>1, AtLaterStep
<1>3. CASE Checks(FALSE)
    BY <1>1, <1>3, ChecksKeeps
<1>4. ASSUME NEW p, NEW h, h = NamedProvider(p, Len(owned.handles) + 1),
             Continues([owned EXCEPT !.handles = Append(@, h), !.credentials = Append(@,
                   CredentialOf(cfg, p))], {h})
      PROVE  BootInv'
  <2>1. PICK t, n, cred : /\ Added(owned.handles, h, t, n) /\ t = Append(owned.handles, h)
                          /\ n = Len(owned.handles) + 1 /\ cred =
                                Append(owned.credentials, CredentialOf(cfg, p))
      BY DEF Added
  <2>2. PICK q : q = [owned EXCEPT !.handles = t, !.credentials = cred] /\ Continues(q, {h})
      BY <1>4, <2>1
  <2>3. h.kind = "provider" /\ h.n = n
    <3>1. h = NamedProvider(p, n)
        BY <1>4, <2>1
    <3> QED
        BY <3>1, NamedProviderFields, Zenon
  <2>4. owned.provider = {}
      BY <1>1, <1>2 DEF BootInv
  <2>5. Fits(q, live \cup {h})
      BY <1>2, <2>1, <2>2, <2>3, <2>4, HandleFits
  <2>6. DOMAIN owned = Members
      BY DEF BootInv, OwnedShape
  <2>7. q.provider = owned.provider /\ q.observer = owned.observer
      BY <2>2, <2>6 DEF Members, Singles
  <2> QED
      BY <1>2, <2>2, <2>5, <2>7, ContinuesKeeps
<1> QED
    BY <1>3, <1>4 DEF CreateNamedProvider

LEMMA ProviderKeeps ==
    ASSUME BootInv, CreateProviderFromConfig
    PROVE  BootInv'
<1>1. AtStep("provider") /\ boot.at = 7
    BY StepPlaces DEF CreateProviderFromConfig
<1>2. boot.phase = "booting" /\ ConfigObject \in live
    BY <1>1, AtLaterStep
<1>3. PICK o : o = owned /\ OwnedShape(o) /\ IsSeq(o.handles) /\ o.provider = {} /\ Objects(o) \subseteq live
    BY <1>1, <1>2 DEF BootInv, OwnedShape, Numbered
<1>4. CASE /\ ~WrapsHandles(cfg, ResolveDefaultProvider(cfg), owned.handles)
           /\ Ends(TRUE, [owned EXCEPT !.provider = {owned.handles[1]}], {})
  <2>1. Len(o.handles) = 1 /\ 1 \in DOMAIN o.handles
      BY <1>3, <1>4, SeqDomain DEF WrapsHandles
  <2>2. PICK x, q : x = owned.handles[1] /\ q = [owned EXCEPT !.provider = {x}] /\ Ends(TRUE, q, {})
      BY <1>4
  <2>3. Fits(q, live \cup {x})
      BY <1>1, <1>2, <1>3, <2>1, <2>2, ProviderFits
  <2>4. x \in live
    <3>1. x \in SetOf(o.handles)
        BY <1>3, <2>1, <2>2 DEF SetOf
    <3> QED
        BY <1>3, <3>1 DEF Objects
  <2>5. live \cup {x} = live \cup {}
      BY <2>4
  <2> QED
      BY <1>2, <2>2, <2>3, <2>5, EndsKeeps
<1>5. ASSUME NEW ok \in BOOLEAN, Creates(ok, "provider") PROVE BootInv'
  <2>1. CASE ok
    <3>1. PICK x, q : x = One("provider") /\ q = [owned EXCEPT !.provider = {x}] /\ Ends(TRUE, q, {x})
        BY <1>5, <2>1 DEF Creates
    <3>2. Fits(q, live \cup {x})
        BY <1>1, <1>2, <3>1, ProviderFits
    <3> QED
        BY <1>2, <3>1, <3>2, EndsKeeps
  <2>2. CASE ~ok
    <3>1. Checks(FALSE)
        BY <1>5, <2>2 DEF Creates, Checks
    <3> QED
        BY <1>1, <3>1, ChecksKeeps
  <2> QED
      BY <2>1, <2>2
<1> QED
    BY <1>4, <1>5 DEF CreateProviderFromConfig

(* The tools and the channels.                                             *)
LEMMA ToolObjectFields == \A n, name, from : /\ ToolObject(n, name, from).kind = "tool"
                                             /\ ToolObject(n, name, from).n = n
                                             /\ ToolObject(n, name, from).name = name
                                             /\ ToolObject(n, name, from).from = from
BY Zenon DEF ToolObject, Obj

LEMMA SameToolsKeeps ==
    ASSUME BootInv, AtStep("tools"), KeepsTools(owned.tools)
    PROVE  BootInv'
<1>1. PICK t : t = owned.tools /\ Numbered(t, "tool")
    BY DEF BootInv, OwnedShape
<1>2. PICK l \in Nat : l = Len(t) /\ DOMAIN t = 1..l
    BY <1>1, SeqDomain DEF Numbered
<1>3. Extends(owned.tools, t) /\ KeepsTools(t)
    BY <1>1, <1>2 DEF Extends
<1>4. \A i \in DOMAIN t : i > Len(owned.tools) => GroupsAllow(cfg, SpecOf(t[i]))
    BY <1>1, <1>2
<1> QED
    BY <1>1, <1>3, <1>4, KeepsToolsKeeps

LEMMA ToolAdded ==
    ASSUME NEW s, Numbered(s, "tool"), NEW x, NEW u, NEW n, Added(s, x, u, n), x.kind = "tool", x.n = n
    PROVE  Numbered(u, "tool") /\ Extends(s, u) /\ \A i \in DOMAIN u : i > Len(s) => u[i] = x
<1>1. Numbered(u, "tool") /\ Len(u) = Len(s) + 1
    BY NumberedAdd
<1>2. IsSeq(s) /\ Longer(s, x, u, n)
    BY SeqAdd DEF Numbered
<1>3. PICK k \in Nat : k = Len(s) /\ DOMAIN s = 1..k
    BY <1>2, SeqDomain
<1>4. Extends(s, u)
    BY <1>1, <1>2, <1>3 DEF Extends, Longer
<1>5. ASSUME NEW i \in DOMAIN u, i > k PROVE u[i] = x
    BY <1>2, <1>3, <1>5 DEF Longer
<1> QED
    BY <1>1, <1>3, <1>4, <1>5

LEMMA BuiltinKeeps ==
    ASSUME BootInv, CreateBuiltinTool
    PROVE  BootInv'
<1>1. AtStep("tools")
    BY DEF CreateBuiltinTool
<1>2. CASE Checks(FALSE)
    BY <1>1, <1>2, ChecksKeeps
<1>3. CASE KeepsTools(owned.tools)
    BY <1>1, <1>3, SameToolsKeeps
<1>4. ASSUME NEW t, t = BuiltinTools(cfg)[boot.i + 1], boot.i < Len(BuiltinTools(cfg)),
             ~ToolFilterGroupsExclude(cfg, t.name, t.decl), KeepsTools(AppendToolIfExposed(owned.tools, t))
      PROVE  BootInv'
  <2>1. t.decl = ToolSpec(t.name)
    <3>1. PICK b : b = BuiltinTools(cfg) /\ Truthful(b)
        BY BuiltinToolsTruthful
    <3>2. PICK l \in Nat : l = Len(b) /\ DOMAIN b = 1..l
        BY <3>1, SeqDomain DEF Truthful
    <3>3. boot.i + 1 \in DOMAIN b
        BY <1>4, <3>1, <3>2 DEF BootInv
    <3> QED
        BY <1>4, <3>1, <3>3 DEF Truthful
  <2>2. GroupsAllow(cfg, ToolSpec(t.name))
      BY <1>4, <2>1, ExposedAllowed
  <2>3. PICK s, x, u, n : /\ s = owned.tools /\ n = Len(s) + 1 /\ x = ToolObject(n, t.name, "builtin")
                          /\ u = AppendToolIfExposed(owned.tools, t) /\ Added(s, x, u, n)
      BY DEF AppendToolIfExposed, Added
  <2>4. x.kind = "tool" /\ x.n = n /\ x.name = t.name /\ x.from = "builtin"
    <3>1. x = ToolObject(n, t.name, "builtin")
        BY <2>3
    <3> QED
        BY <3>1, ToolObjectFields
  <2>5. SpecOf(x) = ToolSpec(t.name)
      BY <2>4 DEF SpecOf
  <2>6. Numbered(s, "tool")
      BY <2>3 DEF BootInv, OwnedShape
  <2>7. Numbered(u, "tool") /\ Extends(s, u) /\ \A i \in DOMAIN u : i > Len(s) => u[i] = x
    <3>1. Added(s, x, u, n)
        BY <2>3
    <3>2. x.kind = "tool" /\ x.n = n
        BY <2>4
    <3> QED
        BY <2>6, <3>1, <3>2, ToolAdded
  <2>8. KeepsTools(u) /\ Extends(owned.tools, u)
      BY <1>4, <2>3, <2>7
  <2>9. \A i \in DOMAIN u : i > Len(owned.tools) => GroupsAllow(cfg, SpecOf(u[i]))
      BY <2>2, <2>3, <2>5, <2>7
  <2> QED
      BY <1>1, <2>7, <2>8, <2>9, KeepsToolsKeeps
<1> QED
    BY <1>2, <1>3, <1>4 DEF CreateBuiltinTool

LEMMA ToolsJoined ==
    ASSUME NEW s, Numbered(s, "tool"), NEW v, NEW count \in Nat, NEW u, u = AddMcpTools(s, v, count)
    PROVE  /\ Numbered(u, "tool") /\ Extends(s, u)
           /\ \A i \in DOMAIN u : i > Len(s) => u[i].from = v.transport
<1>1. IsSeq(s)
    BY DEF Numbered
<1>2. PICK k \in Nat : k = Len(s) /\ DOMAIN s = 1..k
    BY <1>1, SeqDomain
<1>3. PICK f : f = [i \in 1..count |-> ToolObject(k + i, v.name, v.transport)]
    OBVIOUS
<1>4. /\ DOMAIN f = 1..count
      /\ \A i \in 1..count : f[i] = ToolObject(k + i, v.name, v.transport)
    BY <1>3
<1>5. ASSUME NEW i \in 1..count PROVE f[i].kind = "tool" /\ f[i].n = k + i /\ f[i].from = v.transport
    BY <1>4, ToolObjectFields
<1>6. IsSeq(f)
  <2>1. PICK S : \A i \in 1..count : f[i] \in S
    <3>1. \A i \in 1..count : f[i] \in {f[j] : j \in 1..count}
        OBVIOUS
    <3> QED
        BY <3>1
  <2>2. f \in Seq(S)
      BY <1>3, <1>4, <2>1, IsASeq
  <2> QED
      BY <2>2 DEF IsSeq
<1>7. Len(f) = count
  <2>1. PICK l \in Nat : l = Len(f) /\ 1..l = 1..count
      BY <1>4, <1>6, SeqDomain
  <2> QED
      BY <2>1
<1>8. Joined(s, f, u)
    BY <1>2, <1>3 DEF AddMcpTools, Joined
<1>9. /\ IsSeq(u) /\ DOMAIN u = 1..(Len(s) + Len(f)) /\ Len(u) = Len(s) + Len(f)
      /\ \A i \in 1..Len(s) : u[i] = s[i]
      /\ \A i \in 1..Len(f) : u[Len(s) + i] = f[i]
    BY <1>1, <1>6, <1>8, SeqJoin
<1>10. /\ IsSeq(u) /\ DOMAIN u = 1..(k + count) /\ Len(u) = k + count
       /\ \A i \in 1..k : u[i] = s[i]
       /\ \A i \in 1..count : u[k + i] = f[i]
    BY <1>2, <1>7, <1>9
<1>11. ASSUME NEW i \in 1..(k + count), i > k
       PROVE  u[i].kind = "tool" /\ u[i].n = i /\ u[i].from = v.transport
  <2>1. i - k \in 1..count /\ k + (i - k) = i
      BY <1>11
  <2>2. u[i] = f[i - k]
      BY <1>10, <2>1
  <2> QED
      BY <1>5, <2>1, <2>2
<1>12. ASSUME NEW i \in 1..k PROVE u[i].kind = "tool" /\ u[i].n = i
  <2>1. u[i] = s[i]
      BY <1>10
  <2> QED
      BY <1>2, <2>1 DEF Numbered
<1>13. Numbered(u, "tool")
  <2>1. ASSUME NEW i \in 1..(k + count) PROVE u[i].kind = "tool" /\ u[i].n = i
    <3>1. i \in 1..k \/ i > k
        OBVIOUS
    <3> QED
        BY <1>11, <1>12, <3>1
  <2> QED
      BY <1>10, <2>1 DEF Numbered
<1>14. Extends(s, u)
    BY <1>2, <1>10 DEF Extends
<1> QED
    BY <1>2, <1>10, <1>11, <1>13, <1>14

LEMMA McpKeeps ==
    ASSUME BootInv, CreateMcpServerTools
    PROVE  BootInv'
<1>1. AtStep("tools")
    BY DEF CreateMcpServerTools
<1>2. CASE Checks(FALSE)
    BY <1>1, <1>2, ChecksKeeps
<1>3. CASE KeepsTools(owned.tools)
    BY <1>1, <1>3, SameToolsKeeps
<1>4. ASSUME NEW j \in DOMAIN cfg.mcp, NEW v, v = cfg.mcp[j], ~McpExcluded(cfg, v), NEW count \in Nat,
             KeepsTools(AddMcpTools(owned.tools, v, count))
      PROVE  BootInv'
  <2>1. v.transport # "builtin"
    <3>1. v.transport \in Transports
        BY <1>4, BootAssumption DEF BootInv
    <3> QED
        BY <3>1 DEF Transports
  <2>2. PICK s, u : s = owned.tools /\ u = AddMcpTools(s, v, count) /\ KeepsTools(u)
      BY <1>4
  <2>3. Numbered(s, "tool")
      BY <2>2 DEF BootInv, OwnedShape
  <2>4. /\ Numbered(u, "tool") /\ Extends(s, u)
        /\ \A i \in DOMAIN u : i > Len(s) => u[i].from = v.transport
      BY <2>2, <2>3, ToolsJoined
  <2>5. GroupsAllow(cfg, McpServerSpec(v.transport))
      BY <1>4, McpAllowed
  <2>6. \A i \in DOMAIN u : i > Len(owned.tools) => GroupsAllow(cfg, SpecOf(u[i]))
      BY <2>1, <2>2, <2>4, <2>5 DEF SpecOf
  <2>7. Extends(owned.tools, u)
      BY <2>2, <2>4
  <2> QED
      BY <1>1, <2>2, <2>4, <2>6, <2>7, KeepsToolsKeeps
<1>5. ASSUME NEW j \in DOMAIN cfg.mcp PROVE cfg.mcp[j].tools \in Nat
    BY <1>5, BootAssumption DEF BootInv
<1> QED
    BY <1>2, <1>3, <1>4, <1>5 DEF CreateMcpServerTools

LEMMA ChannelKeeps ==
    ASSUME BootInv, CreateNextChannel
    PROVE  BootInv'
<1>1. AtStep("channels")
    BY DEF CreateNextChannel
<1>2. boot.phase = "booting" /\ boot.at > 1
    BY <1>1, AtLaterStep
<1>3. CASE Checks(FALSE)
    BY <1>1, <1>3, ChecksKeeps
<1>4. CASE Continues(owned, {})
    BY <1>2, <1>4, SameFits, ContinuesKeeps
<1>5. ASSUME NEW name, NEW x, x = Obj("channel", Len(owned.channels) + 1, name, ""),
             Continues([owned EXCEPT !.channels = Append(@, x)], {x})
      PROVE  BootInv'
  <2>1. PICK t, n : Added(owned.channels, x, t, n) /\ t = Append(owned.channels, x) /\ n = Len(owned.channels)
        + 1
      BY DEF Added
  <2>2. PICK q : q = [owned EXCEPT !.channels = t] /\ Continues(q, {x})
      BY <1>5, <2>1
  <2>3. x.kind = "channel" /\ x.n = Len(owned.channels) + 1
      BY <1>5, Zenon DEF Obj
  <2>4. Fits(q, live \cup {x}) /\ q.provider = owned.provider /\ q.observer = owned.observer
      BY <1>2, <2>1, <2>2, <2>3, ChannelFits
  <2> QED
      BY <1>2, <2>2, <2>4, ContinuesKeeps
<1> QED
    BY <1>3, <1>4, <1>5 DEF CreateNextChannel

(* The gateway and the observer of its events.                             *)
LEMMA GatewayKeeps ==
    ASSUME BootInv, CreateGateway
    PROVE  BootInv'
<1>1. AtStep("gateway")
    BY DEF CreateGateway
<1>2. boot.phase = "booting" /\ ConfigObject \in live /\ boot.kind = "daemon" /\ boot.at = 17
    BY <1>1, AtLaterStep, StepPlaces
<1>3. ASSUME NEW ok \in BOOLEAN, Checks(ok) PROVE BootInv'
    BY <1>1, <1>3, ChecksKeeps
<1>4. ASSUME NEW ok \in BOOLEAN, NEW g, g = One("gateway"), NEW w, w = One("observer"),
             NEW made, made = {g} \/ made = {g, w}, NEW q, q = [owned EXCEPT !.gateway = {g},
                   !.observer = made \ {g}],
             Ends(ok, q, made)
      PROVE  BootInv'
  <2>1. PICK o : o = owned /\ OwnedShape(o) /\ DOMAIN o = Members /\ Fits(o, live) /\ o.observer = {}
      BY <1>2 DEF BootInv, OwnedShape, Fits, ExposedWithinGroups
  <2>2. /\ DOMAIN q = Members /\ q.gateway = {g} /\ q.observer = made \ {g}
        /\ \A k \in Members : k \notin {"gateway", "observer"} => q[k] = o[k]
      BY <1>4, <2>1 DEF Members, Singles
  <2>3. g # w
    <3>1. g.kind = "gateway" /\ w.kind = "observer"
        BY <1>4, OneFields
    <3> QED
        BY <3>1
  <2>4. (made \ {g} = {} \/ made \ {g} = {w}) /\ made = {g} \cup (made \ {g})
      BY <1>4, <2>3
  <2>5. /\ q.tools = o.tools /\ q.handles = o.handles /\ q.channels = o.channels /\ q.provider = o.provider
        /\ \A k \in Singles \ {"gateway", "observer"} : q[k] = o[k]
      BY <2>2 DEF Members, Singles
  <2>6. \A k \in Singles : q[k] = {} \/ q[k] = {One(k)}
    <3>1. ASSUME NEW k \in Singles \ {"gateway", "observer"} PROVE q[k] = {} \/ q[k] = {One(k)}
        BY <2>1, <2>5 DEF OwnedShape
    <3> QED
        BY <1>4, <2>2, <2>4, <3>1
  <2>7. OwnedShape(q)
      BY <2>1, <2>2, <2>5, <2>6 DEF OwnedShape
  <2>8. o.gateway \subseteq {g}
      BY <1>4, <2>1 DEF OwnedShape, Singles
  <2>9. /\ q.delivery = o.delivery /\ q.heartbeat = o.heartbeat /\ q.cron = o.cron
        /\ q.orchestrator = o.orchestrator /\ q.agent = o.agent /\ q.memory = o.memory /\ q.tts = o.tts
        /\ q.transcriber = o.transcriber /\ q.estop = o.estop /\ q.policy = o.policy
      BY <2>5 DEF Singles
  <2>10. Objects(q) = Objects(o) \cup made
      BY <2>1, <2>2, <2>4, <2>5, <2>8, <2>9 DEF Objects
  <2>11. \A i \in DOMAIN q.tools : GroupsAllow(cfg, SpecOf(q.tools[i]))
      BY <2>1, <2>5 DEF Fits
  <2>12. Fits(q, live \cup made)
      BY <1>2, <2>1, <2>7, <2>10, <2>11 DEF Fits
  <2>13. made \cap Kept = {}
      BY <1>4, MemberNotKept DEF Singles
  <2> QED
      BY <1>2, <1>4, <2>12, <2>13, EndsKeeps
<1>5. CASE /\ cfg.gateway /\ cfg.gatewayBind # Absent
           /\ \E started \in BOOLEAN, observed \in BOOLEAN :
                 LET g == One("gateway") w == One("observer")
                     made == {g} \union (IF started /\ observed /\ cfg.observe THEN {w} ELSE {})
                 IN  Ends(started /\ (observed \/ ~cfg.observe),
                          [owned EXCEPT !.gateway = {g}, !.observer = made \ {g}], made)
  <2>1. PICK started, observed, g, w, made, q :
           /\ started \in BOOLEAN /\ observed \in BOOLEAN
           /\ g = One("gateway") /\ w = One("observer")
           /\ made = {g} \union (IF started /\ observed /\ cfg.observe THEN {w} ELSE {})
           /\ q = [owned EXCEPT !.gateway = {g}, !.observer = made \ {g}]
           /\ Ends(started /\ (observed \/ ~cfg.observe), q, made)
      BY <1>5, Zenon
  <2>2. made = {g} \/ made = {g, w}
      BY <2>1
  <2>3. PICK ok \in BOOLEAN : ok = (started /\ (observed \/ ~cfg.observe))
      OBVIOUS
  <2>4. Ends(ok, q, made)
      BY <2>1, <2>3
  <2> QED
      BY <1>4, <2>1, <2>2, <2>4
<1> QED
    BY <1>3, <1>5 DEF CreateGateway

(* The end of a boot, and of a session.                                    *)
LEMMA NoneKept ==
    ASSUME NEW o, OwnedShape(o)
    PROVE  Objects(o) \cap Kept = {}
<1>1. ConfigObject.kind = "config" /\ SecretStore.kind = "secret_store"
    BY OneFields DEF ConfigObject, SecretStore
<1>2. Rank(ConfigObject) = 17 /\ Rank(SecretStore) = 17
    BY <1>1 DEF Rank
<1>3. PICK s : s = BootOwnedClear(o) /\ Asc(s, 1, 16) /\ SetOf(s) = Objects(o)
    BY ClearOrder
<1>4. ASSUME NEW x \in SetOf(s) PROVE Rank(x) <= 16
    BY <1>3, <1>4 DEF Asc, SetOf
<1> QED
    BY <1>2, <1>3, <1>4 DEF Kept

LEMMA RunKeeps ==
    ASSUME BootInv, RunRuntimeLoop
    PROVE  BootInv'
<1>1. boot.phase = "booting" /\ boot.kind = "daemon"
    BY StepPlaces DEF RunRuntimeLoop, AtStep
<1>2. /\ boot' = [boot EXCEPT !.phase = "clearing"] /\ todo' = ClearAfter("daemon", owned)
      /\ owned' = owned /\ live' = live /\ cfg' = cfg /\ twice' = twice
    BY DEF RunRuntimeLoop
<1>3. /\ DOMAIN boot' = {"kind", "at", "i", "phase"} /\ boot'.at = boot.at /\ boot'.i = boot.i
      /\ boot'.kind = boot.kind /\ boot'.phase = "clearing"
    BY <1>2 DEF BootInv
<1>4. PICK t : /\ t = ClearAfter("daemon", owned) /\ Asc(t, 1, 17)
               /\ SetOf(t) = Objects(owned) \cup (live \cap Kept)
    BY LeftOrder DEF BootInv
<1>5. SetOf(t) = live
    BY <1>1, <1>4 DEF BootInv
<1>6. UsersGoFirst' /\ ToolsHaveConfig' /\ ExposedWithinGroups'
    BY <1>2, <1>3 DEF BootInv, UsersGoFirst, ToolsHaveConfig, ExposedWithinGroups
<1> QED
    BY <1>1, <1>2, <1>3, <1>4, <1>5, <1>6 DEF BootInv

LEMMA OpenedKeeps ==
    ASSUME BootInv, SessionOpened
    PROVE  BootInv'
<1>1. /\ boot.phase = "booting" /\ boot.kind = "session"
      /\ boot' = [boot EXCEPT !.phase = "session"] /\ live' = live \ Kept
      /\ owned' = owned /\ todo' = todo /\ cfg' = cfg /\ twice' = twice
    BY DEF SessionOpened, Kept
<1>2. /\ DOMAIN boot' = {"kind", "at", "i", "phase"} /\ boot'.at = boot.at /\ boot'.i = boot.i
      /\ boot'.kind = boot.kind /\ boot'.phase = "session"
    BY <1>1 DEF BootInv
<1>3. PICK o, O : o = owned /\ OwnedShape(o) /\ O = Objects(o) /\ o.gateway = {} /\ O \cap Kept = {}
    BY <1>1, NoneKept DEF BootInv
<1>4. live' = O
    BY <1>1, <1>3 DEF BootInv
<1>5. \A x \in O : Uses(cfg, o, x) \subseteq O
    BY <1>3, UsersWithin
<1>6. UsersGoFirst'
    BY <1>1, <1>3, <1>4, <1>5 DEF UsersGoFirst
<1>7. ToolsHaveConfig' /\ ExposedWithinGroups'
    BY <1>1, <1>2 DEF BootInv, ToolsHaveConfig, ExposedWithinGroups
<1> QED
    BY <1>1, <1>2, <1>3, <1>4, <1>6, <1>7 DEF BootInv

LEMMA SessionDestroyKeeps ==
    ASSUME BootInv, SessionDestroy
    PROVE  BootInv'
<1>1. /\ boot.phase = "session" /\ boot' = [boot EXCEPT !.phase = "clearing"] /\ todo' = BootOwnedClear(owned)
      /\ owned' = owned /\ live' = live /\ cfg' = cfg /\ twice' = twice
    BY DEF SessionDestroy
<1>2. /\ DOMAIN boot' = {"kind", "at", "i", "phase"} /\ boot'.at = boot.at /\ boot'.i = boot.i
      /\ boot'.kind = boot.kind /\ boot'.phase = "clearing"
    BY <1>1 DEF BootInv
<1>3. PICK t : t = BootOwnedClear(owned) /\ Asc(t, 1, 16) /\ SetOf(t) = Objects(owned)
    BY ClearOrder DEF BootInv
<1>4. Asc(t, 1, 17)
    BY <1>3 DEF Asc
<1>5. UsersGoFirst' /\ ToolsHaveConfig' /\ ExposedWithinGroups'
    BY <1>1, <1>2 DEF BootInv, UsersGoFirst, ToolsHaveConfig, ExposedWithinGroups
<1> QED
    BY <1>1, <1>2, <1>3, <1>4, <1>5 DEF BootInv

LEMMA AscRest ==
    ASSUME NEW s, Asc(s, 1, 17), s # <<>>, NEW t, t = Tail(s), NEW x, x = Head(s)
    PROVE  /\ Asc(t, 1, 17) /\ x \in SetOf(s) /\ SetOf(t) = SetOf(s) \ {x}
           /\ \A y \in SetOf(t) : Rank(x) <= Rank(y)
<1>1. IsSeq(s)
    BY DEF Asc
<1>2. /\ IsSeq(t) /\ 1 \in DOMAIN s /\ x = s[1]
      /\ \A k \in DOMAIN t : k + 1 \in DOMAIN s /\ t[k] = s[k + 1]
    BY <1>1, SeqRest
<1>3. PICK l \in Nat : l = Len(s) /\ DOMAIN s = 1..l
    BY <1>1, SeqDomain
<1>4. DOMAIN t = 1..(l - 1)
  <2>1. PICK S : s \in Seq(S)
      BY <1>1 DEF IsSeq
  <2>2. t \in Seq(S) /\ Len(t) = l - 1
      BY <1>3, <2>1, HeadTailProperties
  <2> QED
      BY <2>2, LenProperties
<1>5. ASSUME NEW k \in DOMAIN t
      PROVE  k + 1 \in DOMAIN s /\ 1 < k + 1 /\ t[k] = s[k + 1] /\ Rank(x) <= Rank(t[k]) /\ x # t[k]
  <2>1. k + 1 \in DOMAIN s /\ 1 < k + 1 /\ t[k] = s[k + 1]
      BY <1>2, <1>4
  <2> QED
      BY <1>2, <2>1 DEF Asc
<1>6. Asc(t, 1, 17)
  <2>1. \A k \in DOMAIN t : Rank(t[k]) \in 1..17
      BY <1>5 DEF Asc
  <2>2. ASSUME NEW i \in DOMAIN t, NEW j \in DOMAIN t, i < j PROVE Rank(t[i]) <= Rank(t[j]) /\ t[i] # t[j]
    <3>1. /\ i + 1 \in DOMAIN s /\ j + 1 \in DOMAIN s /\ i + 1 < j + 1
          /\ t[i] = s[i + 1] /\ t[j] = s[j + 1]
        BY <1>4, <1>5, <2>2
    <3> QED
        BY <3>1 DEF Asc
  <2> QED
      BY <1>2, <2>1, <2>2 DEF Asc
<1>7. SetOf(t) \subseteq SetOf(s) \ {x}
    BY <1>5 DEF SetOf
<1>8. ASSUME NEW y \in SetOf(s) \ {x} PROVE y \in SetOf(t)
  <2>1. PICK i \in DOMAIN s : y = s[i]
      BY <1>8 DEF SetOf
  <2>2. i # 1
      BY <1>2, <1>8, <2>1
  <2>3. i - 1 \in DOMAIN t /\ (i - 1) + 1 = i
      BY <1>3, <1>4, <2>2
  <2>4. t[i - 1] = y
      BY <1>5, <2>1, <2>3
  <2> QED
      BY <2>3, <2>4 DEF SetOf
<1>9. \A y \in SetOf(t) : Rank(x) <= Rank(y)
    BY <1>5 DEF SetOf
<1>10. x \in SetOf(s)
    BY <1>2 DEF SetOf
<1> QED
    BY <1>6, <1>7, <1>8, <1>9, <1>10

LEMMA DestroyNextKeeps ==
    ASSUME BootInv, DestroyNext
    PROVE  BootInv'
<1>1. PICK s, t, x : s = todo /\ t = Tail(todo) /\ x = Head(todo) /\ s # <<>> /\ Asc(s, 1, 17) /\ live =
      SetOf(s)
    BY DEF BootInv, DestroyNext
<1>2. boot.phase = "clearing" /\ boot' = boot /\ cfg' = cfg /\ owned' = owned /\ live' = live \ {x} /\ todo' = t
    BY <1>1 DEF DestroyNext
<1>3. /\ Asc(t, 1, 17) /\ x \in SetOf(s) /\ SetOf(t) = SetOf(s) \ {x}
      /\ \A y \in SetOf(t) : Rank(x) <= Rank(y)
    BY <1>1, AscRest
<1>4. twice' = {}
    BY <1>1, <1>3 DEF DestroyNext, BootInv
<1>5. live' = SetOf(t)
    BY <1>1, <1>2, <1>3
<1>6. UsersGoFirst'
  <2>1. ASSUME NEW y \in SetOf(t), NEW z \in Uses(cfg, owned, y) PROVE z \in SetOf(t)
    <3>1. z \in live
        BY <1>1, <1>3, <2>1 DEF BootInv, UsersGoFirst
    <3>2. OwnedShape(owned)
        BY DEF BootInv
    <3>3. Rank(y) < Rank(z)
        BY <2>1, <3>2, UsesRank
    <3>4. Rank(x) <= Rank(y)
        BY <1>3, <2>1
    <3>5. \A u \in SetOf(s) : Rank(u) \in 1..17
        BY <1>1 DEF Asc, SetOf
    <3>6. Rank(x) \in 1..17 /\ Rank(y) \in 1..17 /\ Rank(z) \in 1..17
        BY <1>1, <1>3, <2>1, <3>1, <3>5
    <3>7. z # x
        BY <3>3, <3>4, <3>6
    <3> QED
        BY <1>1, <1>3, <3>1, <3>7
  <2> QED
      BY <1>2, <1>5, <2>1 DEF UsersGoFirst
<1>7. ExposedWithinGroups'
    BY <1>2 DEF BootInv, ExposedWithinGroups
<1>8. ToolsHaveConfig'
  <2>1. ASSUME boot.kind = "daemon", NEW y \in SetOf(t), y.kind = "tool" PROVE ConfigObject \in SetOf(t)
    <3>1. ConfigObject \in live
        BY <1>1, <1>3, <2>1 DEF BootInv, ToolsHaveConfig
    <3>2. Rank(ConfigObject) = 17 /\ Rank(y) = 9
        BY <2>1, OneFields DEF ConfigObject, Rank
    <3>3. Rank(x) <= Rank(y)
        BY <1>3, <2>1
    <3>4. ConfigObject # x
        BY <3>2, <3>3
    <3> QED
        BY <1>1, <1>3, <3>1, <3>4
  <2> QED
      BY <1>2, <1>5, <2>1 DEF ToolsHaveConfig
<1> QED
    BY <1>2, <1>3, <1>4, <1>5, <1>6, <1>7, <1>8 DEF BootInv

LEMMA ClearedKeeps ==
    ASSUME BootInv, Cleared
    PROVE  BootInv'
<1>1. /\ boot.phase = "clearing" /\ todo = <<>> /\ boot' = [boot EXCEPT !.phase = "over"]
      /\ owned' = owned /\ live' = live /\ cfg' = cfg /\ twice' = twice /\ todo' = todo
    BY DEF Cleared
<1>2. /\ DOMAIN boot' = {"kind", "at", "i", "phase"} /\ boot'.at = boot.at /\ boot'.i = boot.i
      /\ boot'.kind = boot.kind /\ boot'.phase = "over"
    BY <1>1 DEF BootInv
<1>3. live = {}
    BY <1>1, EmptyIsSeq DEF BootInv, SetOf
<1>4. UsersGoFirst' /\ ToolsHaveConfig' /\ ExposedWithinGroups'
    BY <1>1, <1>2 DEF BootInv, UsersGoFirst, ToolsHaveConfig, ExposedWithinGroups
<1> QED
    BY <1>1, <1>2, <1>3, <1>4 DEF BootInv

(* Nothing is made yet.                                                    *)
LEMMA BootInitInv == BootInit => BootInv
<1> SUFFICES ASSUME BootInit PROVE BootInv
    OBVIOUS
<1>1. PICK o : o = Nothing /\ owned = o
    BY DEF BootInit
<1>2. /\ DOMAIN o = Members /\ \A m \in Singles : o[m] = {}
      /\ o.handles = <<>> /\ o.tools = <<>> /\ o.channels = <<>> /\ o.provider = {}
    BY <1>1 DEF Nothing, Members, Singles
<1>3. \A kind : Numbered(<<>>, kind)
    BY EmptyIsSeq DEF Numbered
<1>4. OwnedShape(o)
    BY <1>2, <1>3 DEF OwnedShape
<1>5. SetOf(<<>>) = {}
    BY EmptyIsSeq DEF SetOf
<1>6. Objects(o) = {} /\ o.gateway = {} /\ o.observer = {}
    BY <1>2, <1>5 DEF Objects, Singles
<1>7. /\ DOMAIN boot = {"kind", "at", "i", "phase"} /\ boot.at = 1 /\ boot.i = 0
      /\ boot.kind \in {"daemon", "session"} /\ boot.phase = "booting"
    BY DEF BootInit
<1>8. live = {} /\ twice = {} /\ todo = <<>> /\ cfg \in Configs
    BY DEF BootInit
<1>9. UsersGoFirst /\ ToolsHaveConfig
    BY <1>8 DEF UsersGoFirst, ToolsHaveConfig
<1>10. ExposedWithinGroups
    BY <1>1, <1>2, EmptyIsSeq DEF ExposedWithinGroups
<1> QED
    BY <1>1, <1>2, <1>4, <1>6, <1>7, <1>8, <1>9, <1>10 DEF BootInv

LEMMA BootStepInv == BootInv /\ [BootNext]_bootVars => BootInv'
<1> SUFFICES ASSUME BootInv, [BootNext]_bootVars PROVE BootInv'
    OBVIOUS
<1>1. CASE PrepareWorkspace
  <2>1. AtStep("workspace") /\ \E ok \in BOOLEAN : Checks(ok)
      BY <1>1 DEF PrepareWorkspace, EnsureDir, InitWorkspaceState
  <2> QED
      BY <2>1, ChecksKeeps
<1>2. CASE CreatePolicy
  <2>1. AtStep("policy") /\ \E ok \in BOOLEAN : Ends(ok, [owned EXCEPT !["policy"] = {One("policy")}],
        {One("policy")})
      BY <1>2 DEF CreatePolicy
  <2> QED
      BY <2>1, MadeKeeps DEF Singles
<1>3. CASE LoadEstop
  <2>1. AtStep("estop") /\ \E ok \in BOOLEAN : Ends(ok, [owned EXCEPT !["estop"] = {One("estop")}],
        {One("estop")})
      BY <1>3 DEF LoadEstop
  <2> QED
      BY <2>1, MadeKeeps DEF Singles
<1>4. CASE BuildIdentity
    BY <1>4, ChecksKeeps DEF BuildIdentity
<1>5. CASE CreateMemoryFromConfig
  <2>1. AtStep("memory") /\ \E ok \in BOOLEAN : Creates(ok, "memory")
      BY <1>5 DEF CreateMemoryFromConfig
  <2> QED
      BY <2>1, CreatesKeeps DEF Singles
<1>6. CASE CreateCron
  <2>1. AtStep("cron") /\ \E ok \in BOOLEAN : Ends(ok, [owned EXCEPT !["cron"] = {One("cron")}], {One("cron")})
      BY <1>6 DEF CreateCron
  <2> QED
      BY <2>1, MadeKeeps DEF Singles
<1>7. CASE ToolsCreated
    BY <1>7, ChecksKeeps DEF ToolsCreated
<1>8. CASE ResolveModel
  <2>1. AtStep("model") /\ \E ok \in BOOLEAN : Checks(ok)
      BY <1>8 DEF ResolveModel
  <2> QED
      BY <2>1, ChecksKeeps
<1>9. CASE CreateAgent
    BY <1>9, CreatesKeeps DEF CreateAgent, Singles
<1>10. CASE ChannelsCreated
    BY <1>10, ChecksKeeps DEF ChannelsCreated
<1>11. CASE CreateTranscriber
  <2>1. AtStep("transcriber") /\ (Checks(TRUE) \/ \E ok \in BOOLEAN : Creates(ok, "transcriber"))
      BY <1>11 DEF CreateTranscriber
  <2> QED
      BY <2>1, ChecksKeeps, CreatesKeeps DEF Singles
<1>12. CASE CreateTts
  <2>1. AtStep("tts") /\ (Checks(TRUE) \/ \E ok \in BOOLEAN : Creates(ok, "tts"))
      BY <1>12 DEF CreateTts
  <2> QED
      BY <2>1, ChecksKeeps, CreatesKeeps DEF Singles
<1>13. CASE CreateOrchestrator
  <2>1. AtStep("orchestrator") /\ (Checks(TRUE) \/ \E ok \in BOOLEAN : Creates(ok, "orchestrator"))
      BY <1>13 DEF CreateOrchestrator
  <2> QED
      BY <2>1, ChecksKeeps, CreatesKeeps DEF Singles
<1>14. CASE CreateDelivery
    BY <1>14, CreatesKeeps DEF CreateDelivery, Singles
<1>15. CASE CreateHeartbeat
  <2>1. /\ AtStep("heartbeat")
        /\ \/ Checks(TRUE)
           \/ \E ok \in BOOLEAN : Ends(ok, [owned EXCEPT !["heartbeat"] = {One("heartbeat")}],
                 {One("heartbeat")})
      BY <1>15 DEF CreateHeartbeat
  <2> QED
      BY <2>1, ChecksKeeps, MadeKeeps DEF Singles
<1>16. CASE SessionProcess
    BY <1>16 DEF SessionProcess, BootInv, UsersGoFirst, ToolsHaveConfig, ExposedWithinGroups
<1>17. CASE UNCHANGED bootVars
    BY <1>17 DEF bootVars, BootInv, UsersGoFirst, ToolsHaveConfig, ExposedWithinGroups
<1>18. CASE \/ LoadConfig \/ AttachSecretStore \/ CreateNamedProvider \/ CreateProviderFromConfig
            \/ CreateBuiltinTool \/ CreateMcpServerTools \/ CreateNextChannel \/ CreateGateway
    BY <1>18, ConfigKeeps, SecretsKeeps, NamedProviderKeeps, ProviderKeeps, BuiltinKeeps, McpKeeps,
       ChannelKeeps,
       GatewayKeeps
<1>19. CASE RunRuntimeLoop \/ SessionOpened \/ SessionDestroy \/ DestroyNext \/ Cleared
    BY <1>19, RunKeeps, OpenedKeeps, SessionDestroyKeeps, DestroyNextKeeps, ClearedKeeps
<1> QED
    BY <1>1, <1>2, <1>3, <1>4, <1>5, <1>6, <1>7, <1>8, <1>9, <1>10, <1>11, <1>12, <1>13, <1>14, <1>15, <1>16,
       <1>17, <1>18, <1>19 DEF BootNext

(* However far a boot comes, from whatever configuration, its end destroys *)
(* everything it made and nothing twice (boot_owned_clear), no object      *)
(* outlives one it calls into (the tools of a daemon have their            *)
(* configuration), and no tool is exposed that the groups of               *)
(* the configuration exclude (tool_filter_groups_exclude).                 *)
THEOREM BootSoundHolds == BootSpec => []BootSound
<1>1. BootInv => BootSound
    BY DEF BootInv, BootSound, ClearedExactly
<1> QED
    BY <1>1, BootInitInv, BootStepInv, PTL DEF BootSpec

=============================================================================
