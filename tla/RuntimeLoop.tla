----------------------------- MODULE RuntimeLoop -----------------------------
(***************************************************************************)
(* The runtime loop of src/runtime/loop.c: tasks on libuv timers, opaque   *)
(* timer handles, signals, cooperative stop, the drain of closing handles  *)
(* that ends sc_runtime_loop_run, and the ordered shutdown phases.         *)
(*                                                                         *)
(* libuv is external.  What is used of it: a timer fires only until        *)
(* uv_close; the close callback comes later, from the loop; uv_stop ends   *)
(* uv_run after the current iteration; uv_run without uv_stop returns only *)
(* when no handle is left, and the signal handles keep it alive.  An       *)
(* iteration polls for I/O and signals first and runs due timers last      *)
(* (libuv 1.45 and later); OldLibuv puts the timers first.                 *)
(*                                                                         *)
(* cur is the callback on the stack: a task's run function, the completion *)
(* of some other I/O on the same loop ("io"), or nobody.  Only a callback, *)
(* or the owner of the loop outside sc_runtime_loop_run, calls the API.    *)
(***************************************************************************)
EXTENDS Integers, Sequences, FiniteSets

CONSTANTS
    Tasks,          \* task identities
    Setups,         \* the ways the loop may be set up, see IsSetup
    OldLibuv,       \* timers run before the poll in an iteration
    MaxFires,       \* bound: timer callbacks
    MaxShutdowns    \* bound: calls of sc_runtime_loop_shutdown

(* A way to set up the loop: which tasks have .repeat, which are created by *)
(* sc_runtime_timer_start and have a handle, which are added by callbacks   *)
(* rather than before the run, which run functions may return an error;    *)
(* options->hard_shutdown; options->max_iterations, where 0 is "no limit". *)
IsSetup(s) ==
    /\ s.repeating \subseteq Tasks /\ s.late \subseteq Tasks /\ s.mayFail \subseteq Tasks
    /\ s.timed \subseteq Tasks \ s.repeating
    /\ s.hard \in BOOLEAN
    /\ s.limit \in Nat

ASSUME LoopAssumption ==
    /\ \A s \in Setups : IsSetup(s)
    /\ OldLibuv \in BOOLEAN
    /\ MaxFires \in Nat /\ MaxShutdowns \in Nat
    /\ "io" \notin Tasks /\ "nobody" \notin Tasks

VARIABLES
    setup,      \* how this loop was set up; a member of Setups, never changed
    phase,      \* where sc_runtime_loop_run is
    list,       \* loop->tasks
    tstate,     \* a task's timer: armed, closing, or its memory is freed
    linked,     \* task->timer_handle is set
    handle,     \* the timer handle: active, idle, or freed by its owner
    token,      \* loop->shutdown.cancel_requested
    stop,       \* uv_stop is pending, and in which part of an iteration it was called
    iter,       \* loop->iteration_count
    ran,        \* how often a task's timer fired
    status,     \* loop->status
    runStatus,  \* what sc_runtime_loop_run returns
    failed,     \* history: a task failed while uv_run was active
    signalled,  \* history: a signal was handled
    io,         \* another operation is pending on the loop
    cur,        \* the callback on the stack
    completed,  \* loop->shutdown_phases_completed
    shutdowns,  \* number of sc_runtime_loop_shutdown calls
    cleanup     \* history: shutdown phases that were run

vars == <<setup, phase, list, tstate, linked, handle, token, stop, iter, ran, status,
          runStatus, failed, signalled, io, cur, completed, shutdowns, cleanup>>
taskVars == <<list, tstate, linked, handle>>
runVars == <<iter, ran, status, runStatus, failed, signalled, io>>
endVars == <<setup, completed, shutdowns, cleanup>>

Phases == {"setup", "running", "draining", "returned", "destroyed"}
CleanupSteps == {"drain", "flush", "close", "destroy"}

Init ==
    /\ setup \in Setups
    /\ phase = "setup"
    /\ list = {}
    /\ tstate = [t \in Tasks |-> "none"]
    /\ linked = [t \in Tasks |-> FALSE]
    /\ handle = [t \in Tasks |-> "none"]
    /\ token = FALSE /\ stop = "no"
    /\ iter = 0 /\ ran = [t \in Tasks |-> 0]
    /\ status = "ok" /\ runStatus = "ok"
    /\ failed = FALSE /\ signalled = FALSE
    /\ io = FALSE
    /\ cur = "nobody"
    /\ completed = FALSE /\ shutdowns = 0 /\ cleanup = <<>>

-----------------------------------------------------------------------------
(* Callers of the API: a callback, or the owner while the loop is not run. *)
CallerRuns ==
    \/ phase \in {"setup", "returned"}
    \/ phase \in {"running", "draining"} /\ cur # "nobody"

(* Which part of the iteration a uv_stop of the current callback falls in. *)
StopHere ==
    IF phase \notin {"running", "draining"} THEN "poll"
    ELSE IF cur = "io" THEN "poll" ELSE "timers"

Armed == {t \in Tasks : tstate[t] = "armed"}

(* Mutant: stop_all empties the list and forgets uv_close. *)
StopAllNoClose == list' = {} /\ UNCHANGED <<tstate, linked, handle>>

(* runtime_loop_stop_all: close every listed timer, empty the list.  The    *)
(* handles stay active until the close callbacks run.                       *)
StopAll ==
    /\ list' = {}
    /\ tstate' = [t \in Tasks |->
                    IF t \in list /\ tstate[t] = "armed" THEN "closing" ELSE tstate[t]]
    /\ UNCHANGED <<linked, handle>>

(* Mutant: add_task does not look at the shutdown token. *)
AddTaskAlways(t) ==
    /\ CallerRuns
    /\ tstate[t] = "none"
    /\ (t \in setup.late) <=> (phase # "setup")
    /\ list' = list \cup {t}
    /\ tstate' = [tstate EXCEPT ![t] = "armed"]
    /\ linked' = [linked EXCEPT ![t] = (t \in setup.timed)]
    /\ handle' = [handle EXCEPT ![t] = IF t \in setup.timed THEN "active" ELSE "none"]
    /\ UNCHANGED <<phase, token, stop, cur, runVars, endVars>>

(* runtime_loop_add_task_internal, and sc_runtime_timer_start for a timer; *)
(* after a shutdown request it returns CANCELLED and changes nothing.      *)
AddTask(t) ==
    /\ CallerRuns
    /\ tstate[t] = "none"
    /\ (t \in setup.late) <=> (phase # "setup")
    /\ ~token
    /\ list' = list \cup {t}
    /\ tstate' = [tstate EXCEPT ![t] = "armed"]
    /\ linked' = [linked EXCEPT ![t] = (t \in setup.timed)]
    /\ handle' = [handle EXCEPT ![t] = IF t \in setup.timed THEN "active" ELSE "none"]
    /\ UNCHANGED <<phase, token, stop, cur, runVars, endVars>>

(* Mutant: the request forgets uv_stop. *)
RequestStopNoUvStop(where) ==
    /\ token' = TRUE
    /\ UNCHANGED stop
    /\ IF token THEN UNCHANGED taskVars ELSE StopAll

(* sc_runtime_loop_request_shutdown: only the first request closes timers. *)
RequestStop(where) ==
    /\ token' = TRUE
    /\ stop' = where
    /\ IF token THEN UNCHANGED taskVars ELSE StopAll

RequestShutdown ==
    /\ CallerRuns
    /\ RequestStop(StopHere)
    /\ UNCHANGED <<phase, cur, runVars, endVars>>

(* runtime_loop_remove_task. *)
RemoveTask(t) ==
    IF t \in list
    THEN /\ list' = list \ {t}
         /\ tstate' = [tstate EXCEPT ![t] = "closing"]
    ELSE UNCHANGED <<list, tstate>>

(* sc_runtime_timer_cancel: unlink both ways, then remove the task. *)
CancelHandle(t, state) ==
    /\ IF handle[t] = "active"
       THEN linked' = [linked EXCEPT ![t] = FALSE] /\ RemoveTask(t)
       ELSE UNCHANGED <<linked, list, tstate>>
    /\ handle' = [handle EXCEPT ![t] = state]

TimerCancel(t) ==
    /\ CallerRuns \/ phase = "destroyed"
    /\ handle[t] \in {"active", "idle"}
    /\ CancelHandle(t, "idle")
    /\ UNCHANGED <<phase, token, stop, cur, runVars, endVars>>

TimerDestroy(t) ==
    /\ CallerRuns \/ phase = "destroyed"
    /\ handle[t] \in {"active", "idle"}
    /\ CancelHandle(t, "freed")
    /\ UNCHANGED <<phase, token, stop, cur, runVars, endVars>>

(* runtime_loop_close_cb: the task is freed, its handle detached. *)
Free(ts) ==
    /\ tstate' = [t \in Tasks |-> IF t \in ts THEN "freed" ELSE tstate[t]]
    /\ handle' = [t \in Tasks |-> IF t \in ts /\ linked[t] THEN "idle" ELSE handle[t]]
    /\ linked' = [t \in Tasks |-> IF t \in ts THEN FALSE ELSE linked[t]]

-----------------------------------------------------------------------------
(* sc_runtime_loop_run *)

(* Start the signal handlers; enter uv_run if there is work and no stop. *)
RunStart ==
    /\ phase = "setup"
    /\ phase' = IF list # {} /\ ~token THEN "running" ELSE "draining"
    /\ UNCHANGED <<taskVars, token, stop, cur, runVars, endVars>>

(* Due times order the timers: the first firing of the tasks added before   *)
(* the run (all run_immediately) comes before any timer's second.           *)
Due(t) == ran[t] > 0 => \A u \in Armed \ setup.late : ran[u] > 0

TimerFire(t) ==
    /\ phase \in {"running", "draining"} /\ cur = "nobody"
    /\ stop # "timers"
    /\ tstate[t] = "armed" /\ Due(t)
    /\ iter < MaxFires
    /\ iter' = iter + 1
    /\ ran' = [ran EXCEPT ![t] = @ + 1]
    /\ cur' = t
    /\ UNCHANGED <<phase, taskVars, token, stop, status, runStatus, failed,
                   signalled, io, endVars>>

(* Mutant: a failed run function does not end the loop. *)
TaskErrorGoesOn ==
    /\ cur \in setup.mayFail
    /\ status' = "error"
    /\ failed' = (failed \/ phase = "running")
    /\ cur' = "nobody"
    /\ UNCHANGED <<phase, taskVars, token, stop, iter, ran, runStatus, signalled, io, endVars>>

(* The run function failed: stop everything, without a shutdown request. *)
TaskError ==
    /\ cur \in setup.mayFail
    /\ StopAll
    /\ stop' = "timers"
    /\ status' = "error"
    /\ failed' = (failed \/ phase = "running")
    /\ cur' = "nobody"
    /\ UNCHANGED <<phase, token, iter, ran, runStatus, signalled, io, endVars>>

(* Mutant: off by one. *)
LimitExceeded == setup.limit > 0 /\ iter > setup.limit

LimitReached == setup.limit > 0 /\ iter >= setup.limit

(* The run function succeeded: the iteration limit, then one-shot removal. *)
TaskOk ==
    /\ cur \in Tasks
    /\ status' = "ok"
    /\ cur' = "nobody"
    /\ \/ /\ LimitReached
          /\ RequestStop("timers")
       \/ /\ ~LimitReached
          /\ IF cur \notin setup.repeating \/ token THEN RemoveTask(cur)
                                              ELSE UNCHANGED <<list, tstate>>
          /\ UNCHANGED <<linked, handle, token, stop>>
    /\ UNCHANGED <<phase, iter, ran, runStatus, failed, signalled, io, endVars>>

(* runtime_loop_signal_cb *)
Signal ==
    /\ phase = "running" /\ cur = "nobody"
    /\ stop # "timers" \/ OldLibuv
    /\ signalled' = TRUE
    /\ \/ /\ setup.hard
          /\ StopAll
          /\ stop' = "poll"
          /\ UNCHANGED <<token, status>>
       \/ /\ ~setup.hard
          /\ RequestStop("poll")
          /\ status' = "ok"
    /\ UNCHANGED <<phase, cur, iter, ran, runStatus, failed, io, endVars>>

(* A task starts some other operation on the loop; it completes later. *)
IoStart ==
    /\ cur \in Tasks /\ ~io
    /\ io' = TRUE
    /\ UNCHANGED <<phase, taskVars, token, stop, iter, ran, status, runStatus,
                   failed, signalled, cur, endVars>>

IoCallback ==
    /\ phase \in {"running", "draining"} /\ cur = "nobody" /\ io
    /\ stop # "timers" \/ OldLibuv \/ phase = "draining"
    /\ cur' = "io"
    /\ UNCHANGED <<phase, taskVars, token, stop, runVars, endVars>>

IoReturn ==
    /\ cur = "io"
    /\ cur' = "nobody"
    /\ io' = FALSE
    /\ UNCHANGED <<phase, taskVars, token, stop, iter, ran, status, runStatus,
                   failed, signalled, endVars>>

CloseCb(t) ==
    /\ phase \in {"running", "draining"} /\ cur = "nobody"
    /\ tstate[t] = "closing"
    /\ Free({t})
    /\ UNCHANGED <<phase, list, token, stop, cur, runVars, endVars>>

(* uv_run returns; the status is taken, the signal handlers are closed. *)
RunStops ==
    /\ phase = "running" /\ cur = "nobody"
    /\ stop # "no"
    /\ phase' = "draining"
    /\ stop' = "no"
    /\ runStatus' = status
    /\ status' = "ok"
    /\ UNCHANGED <<taskVars, token, iter, ran, failed, signalled, io, cur, endVars>>

(* A uv_stop during the final drain only makes it call uv_run again. *)
DrainAgain ==
    /\ phase = "draining" /\ cur = "nobody"
    /\ stop # "no"
    /\ stop' = "no"
    /\ UNCHANGED <<phase, taskVars, token, cur, runVars, endVars>>

(* runtime_loop_drain_closing_handles is done: no handle is left. *)
RunReturns ==
    /\ phase = "draining" /\ cur = "nobody" /\ stop = "no"
    /\ ~io /\ \A t \in Tasks : tstate[t] \notin {"armed", "closing"}
    /\ phase' = "returned"
    /\ UNCHANGED <<taskVars, token, stop, cur, runVars, endVars>>

-----------------------------------------------------------------------------
(* sc_runtime_loop_shutdown: request the stop, then the phases in order; a  *)
(* failing phase (the last of the prefix) ends the call.                    *)
CleanupPlan(hard) == IF hard THEN <<"close", "destroy">>
                             ELSE <<"drain", "flush", "close", "destroy">>

Shutdown(hard) ==
    /\ CallerRuns
    /\ shutdowns < MaxShutdowns
    /\ shutdowns' = shutdowns + 1
    /\ \/ /\ completed
          /\ UNCHANGED <<taskVars, token, stop, completed, cleanup>>
       \/ /\ ~completed
          /\ RequestStop(StopHere)
          /\ \E n \in 1..Len(CleanupPlan(hard)), ok \in BOOLEAN :
                /\ ok => n = Len(CleanupPlan(hard))
                /\ cleanup' = cleanup \o SubSeq(CleanupPlan(hard), 1, n)
                /\ completed' = ok
    /\ UNCHANGED <<setup, phase, cur, runVars>>

(* sc_runtime_loop_destroy: stop everything and drain. *)
LoopDestroy ==
    /\ phase \in {"setup", "returned"}
    /\ phase' = "destroyed"
    /\ list' = {}
    /\ Free({t \in Tasks : tstate[t] \in {"armed", "closing"}})
    /\ UNCHANGED <<token, stop, cur, runVars, endVars>>

Next ==
    \/ \E t \in Tasks : AddTask(t) \/ TimerCancel(t) \/ TimerDestroy(t)
    \/ RequestShutdown
    \/ RunStart
    \/ \E t \in Tasks : TimerFire(t) \/ CloseCb(t)
    \/ TaskError
    \/ TaskOk
    \/ Signal
    \/ IoStart
    \/ IoCallback
    \/ IoReturn
    \/ RunStops
    \/ DrainAgain
    \/ RunReturns
    \/ \E hard \in BOOLEAN : Shutdown(hard)
    \/ LoopDestroy

(* libuv keeps iterating: callbacks return, close callbacks are delivered,  *)
(* pending I/O completes (every request has a timeout), uv_run returns.     *)
Fairness ==
    /\ WF_vars(TaskOk) /\ WF_vars(IoReturn) /\ WF_vars(IoCallback)
    /\ \A t \in Tasks : WF_vars(CloseCb(t))
    /\ WF_vars(RunStops) /\ WF_vars(DrainAgain) /\ WF_vars(RunReturns)

Spec == Init /\ [][Next]_vars
FairSpec == Spec /\ Fairness

-----------------------------------------------------------------------------
(* Properties *)

(* Type invariant of the loop. *)
TypeOK ==
    /\ setup \in Setups
    /\ phase \in Phases
    /\ list \subseteq Tasks
    /\ tstate \in [Tasks -> {"none", "armed", "closing", "freed"}]
    /\ linked \in [Tasks -> BOOLEAN]
    /\ handle \in [Tasks -> {"none", "active", "idle", "freed"}]
    /\ token \in BOOLEAN /\ stop \in {"no", "poll", "timers"}
    /\ iter \in 0..MaxFires /\ ran \in [Tasks -> 0..MaxFires]
    /\ status \in {"ok", "error"} /\ runStatus \in {"ok", "error"}
    /\ failed \in BOOLEAN /\ signalled \in BOOLEAN /\ io \in BOOLEAN
    /\ cur \in Tasks \cup {"io", "nobody"}
    /\ completed \in BOOLEAN /\ shutdowns \in 0..MaxShutdowns
    /\ cleanup \in Seq(CleanupSteps)

(* Tasks and timer handles point at each other or not at all: a handle that *)
(* is active has a task that was not freed, and a task never keeps a        *)
(* pointer to a handle its owner has freed, whichever of the two goes first.*)
HandleSound ==
    \A t \in Tasks :
        /\ handle[t] = "active" <=> linked[t]
        /\ linked[t] => tstate[t] \in {"armed", "closing"}

(* The task list is exactly the set of armed timers, so that stop_all, which *)
(* walks the list, leaves no timer that still fires.                        *)
ListIsArmed == list = Armed

(* After a shutdown request no run function is started any more. *)
NoRunAfterRequest == [][ (cur' \in Tasks /\ cur' # cur) => ~token ]_vars

(* Cleanup runs after new work is refused: from the first shutdown phase on *)
(* no timer is armed.                                                       *)
CleanupAfterStop == cleanup # <<>> => token /\ Armed = {}

(* The error of a task that failed while the loop ran is what               *)
(* sc_runtime_loop_run returns.                                             *)
ErrorReported == (phase \in {"returned", "destroyed"} /\ failed) => runStatus = "error"

(* After a signal that asks for a graceful stop no task is scheduled again, *)
(* although completions still run and may add tasks.                        *)
NoWorkAfterGracefulSignal == (signalled /\ ~setup.hard) => Armed = {}

(* The loop's structures stay sound while it is stopped from a callback, a  *)
(* signal or outside: no dangling handle, no timer that outlives the stop,  *)
(* no phase of the shutdown before the work has ended (runtime_loop_free,   *)
(* sc_runtime_loop_request_stop, runtime_loop_signal_cb).                   *)
LoopSound == TypeOK /\ HandleSound /\ CleanupAfterStop /\ NoWorkAfterGracefulSignal

(* With the iteration limit set to the number of tasks (the "once" mode of  *)
(* run_runtime_loop) a run that ends by the limit has run every task        *)
(* exactly once.                                                            *)
OnceRunsEach ==
    (/\ phase \in {"draining", "returned"}
     /\ \A t \in Tasks : tstate[t] # "none"
     /\ setup.limit = Cardinality(Tasks)
     /\ iter >= setup.limit)
    => \A t \in Tasks : ran[t] = 1

(* A stop request ends sc_runtime_loop_run. *)
StopReturns == (phase = "running" /\ token) ~> (phase = "returned")
=============================================================================
