-------------------------------- MODULE Cron --------------------------------
(***************************************************************************)
(* Cron jobs (src/autonomy/autonomy.c): the job store, its state file, the *)
(* loop task that runs due jobs (src/runtime/bootstrap.c), the agent's     *)
(* tools that edit the store (src/tools/autonomy_tools.c) and the command  *)
(* line that edits the file (src/app/app_cron.c).                          *)
(*                                                                         *)
(* Three parties share the jobs without a lock.  The daemon reads the file *)
(* once, when it starts, and never writes it.  A job's turn is one blocking *)
(* call, but tools the agent calls in it edit the vector whose slot         *)
(* sc_cron_job_execute points into.  Command lines are processes of their   *)
(* own: they read the whole file and write it back.                        *)
(*                                                                         *)
(* A minute is Fine instants long; an instant is a reading of the wall      *)
(* clock to the nanosecond, so no two passes read the same one.            *)
(***************************************************************************)
EXTENDS Naturals, SequencesExt, FiniteSets

CONSTANTS
    Ids,          \* the job ids that tools and commands name
    Schedules,    \* schedule texts: [fields |-> 5, at |-> minutes] or
                  \* [fields |-> 7, at |-> instants]
    Builds,       \* the builds: TRUE is one with SC_HAVE_NANOCRON
    Fine,         \* instants in a minute
    Files,        \* what the state file may hold at first: sequences of jobs
    ConfigJobs,   \* the config's job: a set of at most one [id, sched, once]
    Commands,     \* the command-line processes
    FirstCap,     \* first capacity of a vector (4 in sc_vec_reserve)
    MaxInstant, MaxEdits, MaxCommands, MaxBoots    \* bounds of the model

FileJobs == UNION {ToSet(f) : f \in Files}

\* The jobs that the file, the config, the tools and the commands can name.
JobIds == Ids \cup {job.id : job \in FileJobs} \cup {c.id : c \in ConfigJobs}
JobSchedules == Schedules \cup {job.sched : job \in FileJobs} \cup {c.sched : c \in ConfigJobs}
Job ==
    [id : JobIds, sched : JobSchedules, once : BOOLEAN, kind : {"agent", "shell"},
     enabled : BOOLEAN, last : BOOLEAN]

ASSUME CronAssumption ==
    /\ Builds \subseteq BOOLEAN
    /\ \A f \in Files : f \in Seq(FileJobs)
    /\ FileJobs \subseteq Job
    /\ \A c, d \in ConfigJobs : c = d /\ c.once \in BOOLEAN
    /\ FirstCap \in Nat \ {0} /\ MaxInstant \in Nat \ {0}

VARIABLES
    nanocron,     \* this build has SC_HAVE_NANOCRON
    wallClock,    \* the wall clock
    file,         \* cron_jobs.state: [lines, ok]; ~ok does not parse
    cli,          \* per process: where it is, its command and its store
    up, armed,    \* the daemon runs; it has a cron task
    jobs, cap,    \* owned->cron_jobs and its vector's capacity
    now,          \* the clock as this pass read it
    stage, slot,  \* "idle", "scan" or "turn", and the index of the pass
    exec, moved,  \* the job the turn was started for; its block was freed
    wins,         \* history: successful runs of each job since the start
    ran,          \* history: the jobs this pass has run
    swapped,      \* history: the jobs put in another's place in this pass
    slipped,      \* history: a job's turn moved the vector or removed a job
    summed,       \* history: the jobs the finished commands add up to, while clean
    clean,        \* history: no two commands overlapped, none died writing
    edits, commands, boots

time == <<nanocron, wallClock, now>>
mem == <<up, armed, jobs, cap>>
pass == <<stage, slot, exec, moved, ran, swapped>>
disk == <<file, cli, summed, clean>>
bounds == <<edits, commands, boots>>
cronVars == <<time, mem, pass, disk, wins, slipped, bounds>>

-----------------------------------------------------------------------------
(* Schedules. *)

\* sc_cron_schedule_parse accepts the text.
Parses(text) == text.fields = 5 \/ (nanocron /\ text.fields = 7)

Minute(m) == {m * Fine + k : k \in 0..(Fine - 1)}

\* The instants sc_cron_schedule_matches accepts.  With nanocron the text of
\* five fields was normalised to second 0 and nanosecond 0 of the minute.
Instants(text) ==
    IF ~nanocron THEN UNION {Minute(m) : m \in text.at}
    ELSE IF text.fields = 5 THEN {m * Fine : m \in text.at} ELSE text.at

\* Mutant: once is forgotten.
IsDueAgain(job, t) == job.enabled /\ t \in Instants(job.sched)

\* last_run_at matters only as being set.
IsDue(job, t) ==
    /\ job.enabled
    /\ ~(job.once /\ job.last)
    /\ t \in Instants(job.sched)

-----------------------------------------------------------------------------
(* The job store. *)

\* What the tool, the command line and the config make of their arguments.
NewJob(id, sched, once) ==
    [id |-> id, sched |-> sched, once |-> once, kind |-> "agent", enabled |-> TRUE,
     last |-> FALSE]

Find(store, id) == {i \in DOMAIN store : store[i].id = id}

Put(store, job) ==
    IF Find(store, job.id) = {} THEN Append(store, job)
    ELSE [i \in DOMAIN store |-> IF store[i].id = job.id THEN job ELSE store[i]]

Without(store, id) ==
    IF Find(store, id) = {} THEN store ELSE RemoveAt(store, Min(Find(store, id)))

\* cron_store_parse_body puts line after line.
Load(lines) ==
    LET store[n \in 0..Len(lines)] == IF n = 0 THEN <<>> ELSE Put(store[n - 1], lines[n])
    IN  store[Len(lines)]

\* sc_vec_push, of the nth job: sc_vec_reserve doubles the capacity if there is
\* no room.
Grown(c, n) == IF n <= c THEN c ELSE IF c = 0 THEN FirstCap ELSE 2 * c

\* The capacity after n pushes.
Capacity(n) ==
    LET c[k \in 0..n] == IF k = 0 THEN 0 ELSE Grown(c[k - 1], k)
    IN  c[n]

-----------------------------------------------------------------------------
Idle == [pc |-> "idle", command |-> [op |-> "none"], store |-> <<>>]
NoFile == [lines |-> <<>>, ok |-> TRUE]
Torn == [lines |-> <<>>, ok |-> FALSE]

CronInit ==
    /\ nanocron \in Builds
    /\ wallClock = 1 /\ now = 0
    /\ \E f \in Files : file = [lines |-> f, ok |-> TRUE]
    /\ cli = [p \in Commands |-> Idle]
    /\ up = FALSE /\ armed = FALSE /\ jobs = <<>> /\ cap = 0
    /\ stage = "idle" /\ slot = 1 /\ exec = 0 /\ moved = FALSE /\ ran = {}
    /\ swapped = {}
    /\ wins = <<>> /\ slipped = FALSE
    /\ summed = Load(file.lines) /\ clean = TRUE
    /\ edits = 0 /\ commands = 0 /\ boots = 0

\* Only a daemon that runs reads the clock.
ClockAdvances ==
    /\ up /\ wallClock < MaxInstant
    /\ wallClock' = wallClock + 1
    /\ UNCHANGED <<nanocron, now, mem, pass, disk, wins, slipped, bounds>>

-----------------------------------------------------------------------------
(* The daemon starts and stops. *)

\* The config's job is put last and so replaces the file's job of its id.
WithConfig(loaded) ==
    IF ConfigJobs = {} THEN loaded
    ELSE LET c == CHOOSE c \in ConfigJobs : TRUE IN Put(loaded, NewJob(c.id, c.sched, c.once))

\* A number for each job, to tell the jobs of one id apart, and whether it had
\* run when it came.
Tagged(job, num) ==
    [id |-> job.id, sched |-> job.sched, once |-> job.once, kind |-> job.kind,
     enabled |-> job.enabled, last |-> job.last, num |-> num, loaded |-> job.last]

Numbered(store) == [i \in DOMAIN store |-> Tagged(store[i], i)]

\* create_cron_from_config, then run_runtime_loop: the cron task exists only
\* if there was a job at the start.
StartDaemon ==
    /\ ~up /\ boots < MaxBoots /\ file.ok
    /\ \A c \in ConfigJobs : Parses(c.sched)
    /\ up' = TRUE /\ boots' = boots + 1
    /\ jobs' = Numbered(WithConfig(Load(file.lines)))
    /\ cap' = Capacity(Len(jobs'))
    /\ armed' = (jobs' # <<>>)
    /\ wins' = [i \in DOMAIN jobs' |-> 0]
    /\ slipped' = FALSE
    /\ now' = wallClock - 1
    /\ UNCHANGED <<nanocron, wallClock, pass, disk, edits, commands>>

\* A file or a config that does not parse ends the start.
StartFails ==
    /\ ~up /\ boots < MaxBoots
    /\ ~file.ok \/ \E c \in ConfigJobs : ~Parses(c.sched)
    /\ boots' = boots + 1
    /\ UNCHANGED <<time, mem, pass, disk, wins, slipped, edits, commands>>

Gone ==
    /\ up' = FALSE /\ armed' = FALSE /\ jobs' = <<>> /\ cap' = 0
    /\ stage' = "idle" /\ slot' = 1 /\ exec' = 0 /\ moved' = FALSE /\ ran' = {}
    /\ swapped' = {} /\ wins' = <<>> /\ slipped' = FALSE

\* A stop saves nothing, so it is the same as a crash.
Exit ==
    /\ up
    /\ Gone
    /\ UNCHANGED <<time, disk, bounds>>

-----------------------------------------------------------------------------
(* run_cron_due_jobs *)

CronTick ==
    /\ armed /\ stage = "idle" /\ wallClock > now
    /\ now' = wallClock
    /\ stage' = IF jobs = <<>> THEN "idle" ELSE "scan"
    /\ slot' = 1 /\ ran' = {} /\ swapped' = {}
    /\ UNCHANGED <<nanocron, wallClock, exec, moved, mem, disk, wins, slipped, bounds>>

\* Mutant: the job after one that ran is skipped.
DueSlotsSkip ==
    {i \in DOMAIN jobs : (i = 1 \/ i > slot) /\ i >= slot /\ IsDue(jobs[i], now)}

DueSlots == {i \in DOMAIN jobs : i >= slot /\ IsDue(jobs[i], now)}

ScanDone ==
    /\ stage = "scan" /\ DueSlots = {}
    /\ stage' = "idle"
    /\ UNCHANGED <<time, mem, slot, exec, moved, ran, swapped, disk, wins, slipped, bounds>>

\* The pointer to the slot is taken and the agent's turn begins.
Execute ==
    /\ stage = "scan" /\ DueSlots # {}
    /\ slot' = Min(DueSlots)
    /\ jobs[slot'].kind = "agent"
    /\ exec' = jobs[slot'].num /\ moved' = FALSE
    /\ ran' = ran \cup {exec'}
    /\ stage' = "turn"
    /\ UNCHANGED <<time, mem, swapped, disk, wins, slipped, bounds>>

\* A shell job fails as unsupported.  The error of a task stops the loop, and
\* the process ends.
ExecuteShell ==
    /\ stage = "scan" /\ DueSlots # {}
    /\ jobs[Min(DueSlots)].kind = "shell"
    /\ Gone
    /\ UNCHANGED <<time, disk, bounds>>

\* Mutant: the mark is forgotten.
MarkNever == jobs

\* job->last_run_at = ended, through a pointer that a tool of the turn may
\* have left behind: the write is lost in a freed block or past the end.
Mark ==
    IF moved \/ slot \notin DOMAIN jobs THEN jobs
    ELSE [jobs EXCEPT ![slot].last = TRUE]

\* The turn and the delivery of its output succeed.
JobSucceeds ==
    /\ stage = "turn"
    /\ jobs' = Mark
    /\ wins' = [wins EXCEPT ![exec] = @ + 1]
    /\ stage' = "scan" /\ slot' = slot + 1 /\ exec' = 0 /\ moved' = FALSE
    /\ UNCHANGED <<time, up, armed, cap, ran, swapped, disk, slipped, bounds>>

\* The agent or the delivery fails: as for a shell job.
JobFails ==
    /\ stage = "turn"
    /\ Gone
    /\ UNCHANGED <<time, disk, bounds>>

-----------------------------------------------------------------------------
(* cron_upsert and cron_remove, called by the turn of a job or by another   *)
(* turn between two passes.                                                *)

ToolRuns == up /\ stage \in {"idle", "turn"} /\ edits < MaxEdits

\* realloc may leave the block where it was.
ToolUpsert(id, sched) ==
    /\ ToolRuns /\ Parses(sched)
    /\ LET job == Tagged(NewJob(id, sched, FALSE), Len(wins) + 1)
       IN  /\ jobs' = Put(jobs, job)
           /\ swapped' = IF Find(jobs, id) = {} THEN swapped ELSE swapped \cup {job.num}
    /\ wins' = Append(wins, 0)
    /\ cap' = Grown(cap, Len(jobs'))
    /\ \E away \in BOOLEAN : moved' = (moved \/ (away /\ stage = "turn" /\ cap' # cap))
    /\ slipped' = (slipped \/ moved')
    /\ edits' = edits + 1
    /\ UNCHANGED <<time, up, armed, stage, slot, exec, ran, disk, commands, boots>>

ToolRemove(id) ==
    /\ ToolRuns /\ Find(jobs, id) # {}
    /\ jobs' = Without(jobs, id)
    /\ slipped' = (slipped \/ stage = "turn")
    /\ edits' = edits + 1
    /\ UNCHANGED <<time, up, armed, cap, pass, disk, wins, commands, boots>>

-----------------------------------------------------------------------------
(* smolclaw cron add | remove *)

Alone(p) == \A q \in Commands \ {p} : cli[q].pc = "idle"

Edit(store, command) ==
    IF command.op = "add" THEN Put(store, NewJob(command.id, command.sched, FALSE))
    ELSE Without(store, command.id)

\* A valid command has loaded the file and edited the jobs it read.  A file
\* that does not parse, like a bad argument, ends it with nothing written.
Loads(p, command) ==
    /\ cli[p].pc = "idle" /\ commands < MaxCommands
    /\ file.ok
    /\ cli' = [cli EXCEPT ![p] = [pc |-> "loaded", command |-> command,
                                  store |-> Edit(Load(file.lines), command)]]
    /\ commands' = commands + 1
    /\ clean' = (clean /\ Alone(p))
    /\ UNCHANGED <<time, mem, pass, file, summed, wins, slipped, edits, boots>>

CommandAdds(p, id, sched) ==
    /\ Parses(sched)
    /\ Loads(p, [op |-> "add", id |-> id, sched |-> sched])

CommandRemoves(p, id) ==
    /\ Find(Load(file.lines), id) # {}
    /\ Loads(p, [op |-> "remove", id |-> id])

\* fopen(path, "wb"): an empty file is a file without jobs.
CommandTruncates(p) ==
    /\ cli[p].pc = "loaded"
    /\ cli' = [cli EXCEPT ![p].pc = "writing"]
    /\ file' = NoFile
    /\ UNCHANGED <<time, mem, pass, summed, clean, wins, slipped, bounds>>

\* A full buffer is written: some lines, and perhaps part of one.
CommandFlushes(p) ==
    /\ cli[p].pc = "writing"
    /\ \/ file' = Torn
       \/ \E n \in 0..Len(cli[p].store) :
             file' = [lines |-> SubSeq(cli[p].store, 1, n), ok |-> TRUE]
    /\ cli' = [cli EXCEPT ![p].pc = "flushed"]
    /\ UNCHANGED <<time, mem, pass, summed, clean, wins, slipped, bounds>>

\* fclose writes the rest; beside another writer's bytes it may not parse.
CommandCloses(p) ==
    /\ cli[p].pc \in {"writing", "flushed"}
    /\ \/ file' = [lines |-> cli[p].store, ok |-> TRUE]
       \/ ~clean /\ file' = Torn
    /\ summed' = IF clean THEN Edit(summed, cli[p].command) ELSE <<>>
    /\ cli' = [cli EXCEPT ![p] = Idle]
    /\ UNCHANGED <<time, mem, pass, clean, wins, slipped, bounds>>

CommandDies(p) ==
    /\ cli[p].pc # "idle"
    /\ cli' = [cli EXCEPT ![p] = Idle]
    /\ clean' = (clean /\ cli[p].pc = "loaded")
    /\ UNCHANGED <<time, mem, pass, file, summed, wins, slipped, bounds>>

-----------------------------------------------------------------------------
Daemon ==
    \/ StartDaemon \/ StartFails \/ Exit
    \/ CronTick \/ ScanDone \/ Execute \/ ExecuteShell \/ JobSucceeds \/ JobFails

Tool == \E id \in Ids : ToolRemove(id) \/ \E s \in Schedules : ToolUpsert(id, s)

Command(p) ==
    \/ CommandTruncates(p) \/ CommandFlushes(p) \/ CommandCloses(p) \/ CommandDies(p)
    \/ \E id \in Ids : CommandRemoves(p, id) \/ \E s \in Schedules : CommandAdds(p, id, s)

CronNext == ClockAdvances \/ Daemon \/ Tool \/ \E p \in Commands : Command(p)

CronSpec == CronInit /\ [][CronNext]_cronVars

-----------------------------------------------------------------------------
(* Properties. *)

Fields == {"id", "sched", "once", "kind", "enabled", "last"}

\* The shape of the state: the vector holds its jobs, one to an id and each
\* with a number of its own, and a pass points at the slot it has reached.
CronTypeOK ==
    /\ nanocron \in BOOLEAN /\ wallClock \in 1..MaxInstant /\ now <= wallClock
    /\ \A i \in DOMAIN jobs : DOMAIN jobs[i] = Fields \cup {"num", "loaded"}
    /\ \A i \in DOMAIN file.lines : DOMAIN file.lines[i] = Fields
    /\ \A i, j \in DOMAIN jobs : (jobs[i].id = jobs[j].id \/ jobs[i].num = jobs[j].num) => i = j
    /\ \A i \in DOMAIN jobs : jobs[i].num \in DOMAIN wins
    /\ Len(jobs) <= cap /\ (jobs # <<>> => up) /\ (armed => up)
    /\ stage \in {"idle", "scan", "turn"} /\ (stage = "turn" <=> exec # 0)
    /\ \A p \in Commands : cli[p].pc \in {"idle", "loaded", "writing", "flushed"}

\* A job marked once (sc_cron_job_is_due, sc_cron_job_execute) succeeds at most
\* once in the daemon's life, never when the file says that it has run, and it
\* bears the mark exactly when it has run: through other jobs' turns and tools
\* that put jobs, as long as no turn moved the vector or removed a job.
OnceJobs ==
    ~slipped =>
        \A i \in DOMAIN jobs :
            LET job == jobs[i] IN
            job.once =>
                /\ wins[job.num] <= (IF job.loaded THEN 0 ELSE 1)
                /\ job.last <=> (job.loaded \/ wins[job.num] = 1)

PassEnds == stage = "scan" /\ stage' = "idle" /\ up'

\* run_cron_due_jobs runs every job that is due at the instant it read, the
\* ones that the turns of the pass appended included; only a removal during a
\* turn, which shifts jobs under the index, or a job put in the place of one
\* already passed escapes it.
PassRunsAllDue ==
    [][PassEnds /\ ~slipped =>
        \A i \in DOMAIN jobs :
            IsDue(jobs[i], now) /\ jobs[i].num \notin swapped => jobs[i].num \in ran]_cronVars

\* Commands (app_cron.c) that do not overlap and are not killed while they
\* write add up: whenever no command is writing, the file parses and holds
\* exactly what the finished commands left, in the order they were given.
FileHoldsAcked ==
    clean /\ (\A p \in Commands : cli[p].pc \notin {"writing", "flushed"}) =>
        file.ok /\ Load(file.lines) = summed

\* Jobs are neither lost nor run twice, in the daemon and in the file of the
\* commands (sc_cron_put, sc_cron_job_execute, app_cron.c).
JobsKept == CronTypeOK /\ OnceJobs /\ FileHoldsAcked
=============================================================================
