------------------------------ MODULE TurnQueue ------------------------------
(***************************************************************************)
(* The agent-turn queue of src/runtime/turn_queue.c: callers enqueue jobs, *)
(* a repeating task of the runtime loop hands the head job to the agent as *)
(* an asynchronous turn, the turn's completion calls the job's done        *)
(* callback and removes the head.  sc_runtime_turn_queue_drain is the      *)
(* synchronous alternative.  Everything runs on one thread; what           *)
(* interleaves are loop callbacks (a timer, a signal, a finished provider  *)
(* request, a caller that enqueues) and re-entrant calls made by a done    *)
(* callback.                                                               *)
(*                                                                         *)
(* jobs is a vector of structs BY VALUE (src/core/vector.c).  The agent    *)
(* keeps a pointer to the head's active_turn while the turn runs, and a    *)
(* push may move the whole buffer: buf is the identity of the current      *)
(* buffer, and a read through a pointer into an earlier one is a choice    *)
(* over both values.                                                       *)
(*                                                                         *)
(* A job's input text is abstracted to the job's id, so a window of        *)
(* consecutive inputs is a sequence of ids.                                *)
(***************************************************************************)
EXTENDS Integers, Sequences, FiniteSets, FiniteSetsExt

CONSTANTS
    Keys,           \* the (session_id, thread_id) pairs callers use
    JobLimits,      \* consecutive_message_limit values; 0 asks for the default
    DefaultLimit,   \* RUNTIME_TURN_QUEUE_DEFAULT_CONSECUTIVE_LIMIT
    CancelModes,    \* the values of cancel_previous that callers pass
    FirstCap,       \* capacity of a vector's first allocation
    ReallocMoves,   \* whether a growing realloc moves the block: outcomes of the allocator
    AllocMayFail,   \* whether an allocation may fail
    DrainInFlight,  \* whether callers drain while an asynchronous turn runs
    DrainMax,       \* the max_turns arguments of drain; 0 is "no limit"
    MaxJobs         \* bound: number of jobs ever accepted

ASSUME ConstantsAssumption ==
    /\ JobLimits \subseteq Nat
    /\ DefaultLimit \in Nat \ {0}
    /\ CancelModes \subseteq BOOLEAN
    /\ FirstCap \in Nat \ {0}
    /\ ReallocMoves \subseteq BOOLEAN
    /\ AllocMayFail \in BOOLEAN
    /\ DrainInFlight \in BOOLEAN
    /\ DrainMax \subseteq Nat
    /\ MaxJobs \in Nat

VARIABLES
    jobs,       \* queue->jobs
    cap,        \* queue->jobs.cap
    buf,        \* identity of the block queue->jobs.ptr
    scheduled,  \* queue->scheduled
    timerOn,    \* the loop still has the timer of runtime.agent_turn_queue
    inFlight,   \* queue->in_flight
    turn,       \* the agent's asynchronous turn, NoTurn when none runs
    stopping,   \* loop->shutdown.cancel_requested
    pc,         \* which queue function is on the stack
    left,       \* drain: turns it may still process, -1 when unlimited
    drainOk,    \* drain: status of the turn just processed is not an error
    alive,      \* the queue has not been destroyed
    nextId,     \* id of the next accepted job
    answers     \* history: the done calls, in order

vars == <<jobs, cap, buf, scheduled, timerOn, inFlight, turn, stopping, pc,
          left, drainOk, alive, nextId, answers>>

Ids == 1..MaxJobs
NoTurn == [id |-> 0, buf |-> 0]
Statuses == {"ok", "cancelled", "error"}
PCs == {"idle", "drain", "done_async", "done_drain"}

Job == [id : Ids, key : Keys, window : Seq(Ids), limit : Nat \ {0},
        cancelled : BOOLEAN, active : BOOLEAN]

Init ==
    /\ jobs = <<>>
    /\ cap = 0
    /\ buf = 0
    /\ scheduled = FALSE
    /\ timerOn = FALSE
    /\ inFlight = FALSE
    /\ turn = NoTurn
    /\ stopping = FALSE
    /\ pc = "idle"
    /\ left = 0
    /\ drainOk = TRUE
    /\ alive = TRUE
    /\ nextId = 1
    /\ answers = <<>>

-----------------------------------------------------------------------------
(* Helpers of sc_runtime_turn_queue_enqueue. *)

JobLimit(l) == IF l = 0 THEN DefaultLimit ELSE l

(* Mutant: only the session is compared, and there is one session. *)
MatchesAnyThread(job, key) == TRUE

Matches(job, key) == job.key = key

(* The cancel_previous pass: every queued job of the key, the running head  *)
(* included, gets cancel_requested and its token cancelled.                 *)
CancelMatching(q, key) ==
    [i \in DOMAIN q |->
        [q[i] EXCEPT !.cancelled = IF Matches(q[i], key) THEN TRUE ELSE @]]

MatchingSlots(q, key) == {i \in DOMAIN q : Matches(q[i], key)}

(* The window of the latest queued job of the key, if there is one. *)
LatestWindow(q, key) ==
    IF MatchingSlots(q, key) = {} THEN <<>>
                                  ELSE q[Max(MatchingSlots(q, key))].window

Trim(w, limit) ==
    IF Len(w) > limit THEN SubSeq(w, Len(w) - limit + 1, Len(w)) ELSE w

NewJob(q, id, key, cancelPrevious, limit) ==
    [id |-> id, key |-> key, cancelled |-> FALSE, active |-> FALSE, limit |-> JobLimit(limit),
     window |-> Trim(Append(IF cancelPrevious THEN LatestWindow(q, key) ELSE <<>>, id),
                     JobLimit(limit))]

(* sc_vec_reserve(vec, 1): a full vector doubles its block, which may move. *)
Reserve ==
    \/ /\ Len(jobs) < cap
       /\ UNCHANGED <<cap, buf>>
    \/ /\ Len(jobs) >= cap
       /\ cap' = IF cap = 0 THEN FirstCap ELSE 2 * cap
       /\ \E moves \in ReallocMoves : buf' = IF moves THEN buf + 1 ELSE buf

(* Callers run as loop callbacks or inside a done callback. *)
CallerRuns == alive /\ pc \in {"idle", "done_async", "done_drain"}

Enqueue(key, cancelPrevious, limit) ==
    /\ CallerRuns
    /\ ~stopping
    /\ nextId <= MaxJobs
    /\ LET q == IF cancelPrevious THEN CancelMatching(jobs, key) ELSE jobs
       IN jobs' = Append(q, NewJob(q, nextId, key, cancelPrevious, limit))
    /\ Reserve
    /\ nextId' = nextId + 1
    /\ UNCHANGED <<scheduled, timerOn, inFlight, turn, stopping, pc, left,
                   drainOk, alive, answers>>

(* The copy of the job, or the push, runs out of memory: the caller gets    *)
(* NO_MEMORY, but the cancel_previous pass has already happened.            *)
EnqueueNoMemory(key, cancelPrevious) ==
    /\ AllocMayFail
    /\ CallerRuns
    /\ ~stopping
    /\ cancelPrevious
    /\ jobs' = CancelMatching(jobs, key)
    /\ UNCHANGED <<cap, buf, scheduled, timerOn, inFlight, turn, stopping, pc,
                   left, drainOk, alive, nextId, answers>>

(* Idempotent; the loop refuses the task once it is shutting down. *)
Schedule ==
    /\ CallerRuns
    /\ ~scheduled
    /\ ~stopping
    /\ scheduled' = TRUE
    /\ timerOn' = TRUE
    /\ UNCHANGED <<jobs, cap, buf, inFlight, turn, stopping, pc, left, drainOk,
                   alive, nextId, answers>>

-----------------------------------------------------------------------------
(* The agent, as far as the queue sees it. *)

(* What turn_cancel_requested(turn) may return: the head slot of the        *)
(* current block, or anything when the turn points into a block that the    *)
(* vector has left.                                                         *)
CancelReads ==
    IF turn.buf # buf THEN BOOLEAN
    ELSE IF jobs = <<>> THEN {FALSE}
    ELSE {jobs[1].active /\ jobs[1].cancelled}

(* Mutant: the check before the history append is missing. *)
TurnStatusesUnchecked(cancelSeen) == Statuses

(* A turn ends "ok" only if its last look at the token saw no cancellation; *)
(* it may end "cancelled" for reasons of its own (budget, iteration limit). *)
TurnStatuses(cancelSeen) == IF cancelSeen THEN {"cancelled", "error"} ELSE Statuses

Answer(job, ran, status) == [id |-> job.id, turn |-> ran, status |-> status]

(* runtime_turn_queue_task: start the head job.  A job cancelled while it   *)
(* waited is completed inside the call, before any provider is asked.       *)
Task ==
    /\ alive /\ pc = "idle"
    /\ timerOn /\ ~stopping
    /\ ~inFlight /\ jobs # <<>>
    /\ inFlight' = TRUE
    /\ jobs' = [jobs EXCEPT ![1].active = TRUE]
    /\ \/ /\ ~jobs[1].cancelled
          /\ turn' = [id |-> jobs[1].id, buf |-> buf]
          /\ UNCHANGED <<pc, answers>>
       \/ /\ jobs[1].cancelled
          /\ turn' = NoTurn
          /\ pc' = "done_async"
          /\ \E s \in TurnStatuses(TRUE) :
                answers' = Append(answers, Answer(jobs[1], jobs[1].id, s))
    /\ UNCHANGED <<cap, buf, scheduled, timerOn, stopping, left, drainOk,
                   alive, nextId>>

(* Mutant: a job that cannot be started is removed without an answer. *)
TaskNoMemoryDrops ==
    /\ AllocMayFail
    /\ alive /\ pc = "idle"
    /\ timerOn /\ ~stopping
    /\ ~inFlight /\ jobs # <<>>
    /\ jobs' = Tail(jobs)
    /\ inFlight' = FALSE
    /\ timerOn' = FALSE
    /\ UNCHANGED <<cap, buf, scheduled, turn, stopping, pc, left, drainOk,
                   alive, nextId, answers>>

(* sc_agent_process_message_async cannot allocate its state: in_flight is   *)
(* reset, the job stays, and the failing task stops every timer of the loop.*)
TaskNoMemory ==
    /\ AllocMayFail
    /\ alive /\ pc = "idle"
    /\ timerOn /\ ~stopping
    /\ ~inFlight /\ jobs # <<>>
    /\ jobs' = [jobs EXCEPT ![1].active = TRUE]
    /\ inFlight' = FALSE
    /\ timerOn' = FALSE
    /\ UNCHANGED <<cap, buf, scheduled, turn, stopping, pc, left, drainOk,
                   alive, nextId, answers>>

(* The asynchronous turn completes and runtime_turn_queue_async_done calls  *)
(* the done callback of whatever job is at the head.                        *)
TurnComplete ==
    /\ alive /\ pc = "idle"
    /\ turn # NoTurn
    /\ turn' = NoTurn
    /\ pc' = "done_async"
    /\ \E seen \in CancelReads : \E s \in TurnStatuses(seen) :
          answers' = IF jobs = <<>> THEN answers
                     ELSE Append(answers, Answer(jobs[1], turn.id, s))
    /\ UNCHANGED <<jobs, cap, buf, scheduled, timerOn, inFlight, stopping,
                   left, drainOk, alive, nextId>>

(* Mutant: the answered head stays in the queue. *)
AsyncRemoveKeeps ==
    /\ alive /\ pc = "done_async"
    /\ inFlight' = FALSE
    /\ pc' = "idle"
    /\ UNCHANGED <<jobs, cap, buf, scheduled, timerOn, turn, stopping, left,
                   drainOk, alive, nextId, answers>>

(* Mutant: in_flight is not reset. *)
AsyncRemoveStuck ==
    /\ alive /\ pc = "done_async"
    /\ jobs' = IF jobs = <<>> THEN jobs ELSE Tail(jobs)
    /\ pc' = "idle"
    /\ UNCHANGED <<cap, buf, scheduled, timerOn, inFlight, turn, stopping, left,
                   drainOk, alive, nextId, answers>>

(* The done callback returned: remove the head, allow the next turn. *)
AsyncRemove ==
    /\ alive /\ pc = "done_async"
    /\ jobs' = IF jobs = <<>> THEN jobs ELSE Tail(jobs)
    /\ inFlight' = FALSE
    /\ pc' = "idle"
    /\ UNCHANGED <<cap, buf, scheduled, timerOn, turn, stopping, left, drainOk,
                   alive, nextId, answers>>

-----------------------------------------------------------------------------
(* sc_runtime_turn_queue_drain: a synchronous loop over the head. *)

Drain(max) ==
    /\ alive /\ pc = "idle"
    /\ turn = NoTurn \/ DrainInFlight
    /\ pc' = "drain"
    /\ left' = IF max = 0 THEN -1 ELSE max
    /\ UNCHANGED <<jobs, cap, buf, scheduled, timerOn, inFlight, turn, stopping,
                   drainOk, alive, nextId, answers>>

(* Process the head job inside the call and call its done callback. *)
DrainTurn ==
    /\ alive /\ pc = "drain"
    /\ jobs # <<>> /\ left # 0
    /\ pc' = "done_drain"
    /\ \E s \in TurnStatuses(jobs[1].cancelled) :
          /\ answers' = Append(answers, Answer(jobs[1], jobs[1].id, s))
          /\ drainOk' = (s # "error")
    /\ UNCHANGED <<jobs, cap, buf, scheduled, timerOn, inFlight, turn, stopping,
                   left, alive, nextId>>

(* The done callback returned: remove the head; an error ends the drain. *)
DrainRemove ==
    /\ alive /\ pc = "done_drain"
    /\ jobs' = Tail(jobs)
    /\ left' = IF left > 0 THEN left - 1 ELSE left
    /\ pc' = IF drainOk THEN "drain" ELSE "idle"
    /\ drainOk' = TRUE
    /\ UNCHANGED <<cap, buf, scheduled, timerOn, inFlight, turn, stopping,
                   alive, nextId, answers>>

DrainReturn ==
    /\ alive /\ pc = "drain"
    /\ jobs = <<>> \/ left = 0
    /\ pc' = "idle"
    /\ UNCHANGED <<jobs, cap, buf, scheduled, timerOn, inFlight, turn, stopping,
                   left, drainOk, alive, nextId, answers>>

-----------------------------------------------------------------------------
(* sc_runtime_loop_request_shutdown: the loop's own token and timers; the   *)
(* tokens of queued and running turns are not touched.                      *)
RequestShutdown ==
    /\ CallerRuns
    /\ ~stopping
    /\ stopping' = TRUE
    /\ timerOn' = FALSE
    /\ UNCHANGED <<jobs, cap, buf, scheduled, inFlight, turn, pc, left, drainOk,
                   alive, nextId, answers>>

(* sc_runtime_turn_queue_destroy, after sc_runtime_loop_run has returned:   *)
(* its final drain of the libuv loop waits for the running turn.  Jobs that *)
(* still wait are dropped, their done callbacks are not called.             *)
Destroy ==
    /\ alive /\ pc = "idle"
    /\ turn = NoTurn
    /\ alive' = FALSE
    /\ jobs' = <<>>
    /\ cap' = 0
    /\ timerOn' = FALSE
    /\ UNCHANGED <<buf, scheduled, inFlight, turn, stopping, pc, left, drainOk,
                   nextId, answers>>

Next ==
    \/ \E k \in Keys, c \in CancelModes, l \in JobLimits : Enqueue(k, c, l)
    \/ \E k \in Keys, c \in CancelModes : EnqueueNoMemory(k, c)
    \/ Schedule
    \/ Task
    \/ TaskNoMemory
    \/ TurnComplete
    \/ AsyncRemove
    \/ \E m \in DrainMax : Drain(m)
    \/ DrainTurn
    \/ DrainRemove
    \/ DrainReturn
    \/ RequestShutdown
    \/ Destroy

(* The loop's timer repeats, provider and tool requests have timeouts, and  *)
(* a function that is on the stack runs to its end.                         *)
Fairness ==
    /\ WF_vars(Task)
    /\ WF_vars(TurnComplete)
    /\ WF_vars(AsyncRemove)
    /\ WF_vars(DrainTurn)
    /\ WF_vars(DrainRemove)
    /\ WF_vars(DrainReturn)

Spec == Init /\ [][Next]_vars
FairSpec == Spec /\ Fairness

-----------------------------------------------------------------------------
(* Properties *)

(* Type invariant of the queue, its agent turn and the history of answers. *)
TypeOK ==
    /\ jobs \in Seq(Job)
    /\ cap \in Nat /\ Len(jobs) <= cap
    /\ buf \in Nat
    /\ scheduled \in BOOLEAN /\ timerOn \in BOOLEAN /\ inFlight \in BOOLEAN
    /\ turn \in [id : 0..MaxJobs, buf : Nat]
    /\ stopping \in BOOLEAN
    /\ pc \in PCs
    /\ left \in Int /\ left >= -1
    /\ drainOk \in BOOLEAN /\ alive \in BOOLEAN
    /\ nextId \in 1..(MaxJobs + 1)
    /\ answers \in Seq([id : Ids, turn : Ids, status : Statuses])

(* runtime_turn_queue_async_done answers whatever job is at the head: that  *)
(* job is always the one whose turn produced the result, whatever was       *)
(* enqueued, moved or cancelled while the turn ran.                         *)
AnswersMatch == \A i \in DOMAIN answers : answers[i].turn = answers[i].id

(* done is called at most once per job, in the order the jobs were accepted *)
(* (session/thread ordering), across the asynchronous task and drain.       *)
AnswersInOrder ==
    \A i, j \in DOMAIN answers : i < j => answers[i].id < answers[j].id

(* Until the queue is destroyed, every job that enqueue accepted is queued  *)
(* or has been answered: neither removal of the head after a re-entrant     *)
(* done callback nor a failed start loses one.                              *)
NoJobLost ==
    alive => \A n \in 1..(nextId - 1) :
                \/ \E i \in DOMAIN jobs : jobs[i].id = n
                \/ \E i \in DOMAIN answers : answers[i].id = n

(* in_flight is set exactly while a turn runs or its done callback is being *)
(* served, so the task neither starts a second turn nor stalls.             *)
InFlightExact == alive => (inFlight <=> (turn # NoTurn \/ pc = "done_async"))

(* The queue never mistakes, repeats, reorders or forgets a job, and its    *)
(* flag in_flight is exact, however tasks, drains, done callbacks that      *)
(* enqueue again and failed allocations interleave                          *)
(* (runtime_turn_queue_async_done, runtime_turn_queue_task,                 *)
(* sc_runtime_turn_queue_drain).                                            *)
QueueSound == TypeOK /\ AnswersMatch /\ AnswersInOrder /\ NoJobLost /\ InFlightExact

(* A window of consecutive inputs ends with the job's own input, is in      *)
(* arrival order, respects the job's limit, and never mixes in the input of *)
(* another session/thread that is queued with it.                           *)
WindowSound ==
    \A i \in DOMAIN jobs :
        LET w == jobs[i].window
        IN /\ w # <<>> /\ w[Len(w)] = jobs[i].id
           /\ Len(w) <= jobs[i].limit
           /\ \A m, n \in DOMAIN w : m < n => w[m] < w[n]
           /\ \A j \in DOMAIN jobs, n \in DOMAIN w :
                  w[n] = jobs[j].id => jobs[j].key = jobs[i].key

(* cancel_previous reaches the running turn: a turn whose job was cancelled *)
(* before the turn completed never completes "ok" (and so never enters the  *)
(* session's history).                                                      *)
CancelledNeverOk ==
    [][ (answers' # answers /\ jobs # <<>> /\ jobs[1].cancelled)
            => answers'[Len(answers')].status # "ok" ]_vars

(* The same for a turn whose pointer still names the current block: as long *)
(* as no push moved the vector under it, a cancelled turn never completes   *)
(* "ok", be it the asynchronous one or one that drain runs.                 *)
CancelReachesUnmoved ==
    [][ (answers' # answers /\ jobs # <<>> /\ jobs[1].cancelled
            /\ (turn = NoTurn \/ turn.buf = buf))
            => answers'[Len(answers')].status # "ok" ]_vars

(* While the queue's timer runs, every queued job is eventually answered:   *)
(* in_flight is never left set, the head is never stuck.                    *)
EventuallyAnswered ==
    \A n \in Ids :
        (timerOn /\ \E i \in DOMAIN jobs : jobs[i].id = n)
            ~> (~timerOn \/ \E i \in DOMAIN answers : answers[i].id = n)

(* The queue implements the mailbox: a job leaves the line when its done    *)
(* callback is called, although its struct is removed only afterwards.      *)
IdsOf(s) == [i \in DOMAIN s |-> s[i].id]
Unanswered == IF pc \in {"done_async", "done_drain"} /\ jobs # <<>> THEN Tail(jobs) ELSE jobs

Mailbox == INSTANCE TurnMailbox WITH
    waiting <- IdsOf(Unanswered),
    running <- (turn # NoTurn),
    answered <- IdsOf(answers),
    submitted <- nextId - 1,
    open <- alive

ImplementsMailbox == Mailbox!MailboxSpec
=============================================================================
