----------------------------- MODULE CronModel -----------------------------
(* Instances of Cron for TLC. *)
EXTENDS Cron

Processes == Permutations(Commands)

Hourly == [fields |-> 5, at |-> {1, 2}]
Daily == [fields |-> 5, at |-> {1}]
Precise == [fields |-> 7, at |-> {3}]

FileJob(id, sched, once, kind, last) ==
    [id |-> id, sched |-> sched, once |-> once, kind |-> kind, enabled |-> TRUE,
     last |-> last]

SmallIds == {"b"}
SmallSchedules == {Daily, Precise}

\* No file; a once job that has not run, one that has, and a shell job.
SmallFiles ==
    {<<>>,
     <<FileJob("b", Hourly, TRUE, "agent", FALSE), FileJob("d", Daily, TRUE, "agent", TRUE),
       FileJob("a", Daily, FALSE, "shell", FALSE)>>}

SmallConfigs == {[id |-> "c", sched |-> Daily, once |-> TRUE]}

=============================================================================
