----------------------------- MODULE TurnMailbox -----------------------------
(***************************************************************************)
(* What the turn queue promises its callers, without buffers, windows,     *)
(* timers or callbacks: accepted jobs wait in one line, at most one turn   *)
(* runs and it is the turn of the job at the front, and each answer takes  *)
(* exactly that job out of the line.  Closing the mailbox drops the jobs   *)
(* that still wait.                                                        *)
(***************************************************************************)
EXTENDS Naturals, Sequences

VARIABLES
    waiting,    \* ids of the accepted jobs that have no answer yet
    running,    \* a turn for the front job has begun
    answered,   \* ids in the order of their answers
    submitted,  \* number of jobs accepted so far
    open        \* the mailbox has not been closed

mvars == <<waiting, running, answered, submitted, open>>

MailboxInit ==
    /\ waiting = <<>>
    /\ running = FALSE
    /\ answered = <<>>
    /\ submitted = 0
    /\ open = TRUE

Submit ==
    /\ open
    /\ submitted' = submitted + 1
    /\ waiting' = Append(waiting, submitted')
    /\ UNCHANGED <<running, answered, open>>

Begin ==
    /\ open /\ ~running
    /\ waiting # <<>>
    /\ running' = TRUE
    /\ UNCHANGED <<waiting, answered, submitted, open>>

Reply ==
    /\ open
    /\ waiting # <<>>
    /\ answered' = Append(answered, waiting[1])
    /\ waiting' = Tail(waiting)
    /\ running' = FALSE
    /\ UNCHANGED <<submitted, open>>

Close ==
    /\ open /\ ~running
    /\ open' = FALSE
    /\ waiting' = <<>>
    /\ UNCHANGED <<running, answered, submitted>>

MailboxNext == Submit \/ Begin \/ Reply \/ Close

MailboxSpec == MailboxInit /\ [][MailboxNext]_mvars
=============================================================================
