-------------------------- MODULE RuntimeLoopModel --------------------------
(* Ways to set up the loop with three tasks.                               *)
EXTENDS RuntimeLoop

(* A repeating task that may fail, a one-shot timer with a handle, and a   *)
(* task that callbacks add.                                                *)
Service ==
    [repeating |-> {"a"}, timed |-> {"timer"}, late |-> {"b"}, mayFail |-> {"a"},
     hard |-> FALSE, limit |-> 0]

(* The same with hard_shutdown. *)
HardService == [Service EXCEPT !.hard = TRUE]

(* The once mode of run_runtime_loop: as many iterations as tasks. *)
Once ==
    [repeating |-> {"a", "b", "timer"}, timed |-> {}, late |-> {}, mayFail |-> {"a"},
     hard |-> FALSE, limit |-> 3]

AllSetups == {Service, HardService, Once}
OnlyService == {Service}
=============================================================================
