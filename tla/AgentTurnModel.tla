--------------------------- MODULE AgentTurnModel ---------------------------
(* Instances of AgentTurn: three calls of two tools. *)
EXTENDS AgentTurn, TLC

(* Two calls of a tool with attachments, one of another tool. *)
ShotCalls == "shot1" :> "shot" @@ "shot2" :> "shot" @@ "read1" :> "read"

(* A channel's turn: the user can be asked, memory and a budget. *)
Asking(m) ==
    [mode |-> m, filtered |-> {}, rejected |-> {}, guarded |-> {"shot"},
     canApprove |-> TRUE, memory |-> TRUE, history |-> 1, budget |-> TRUE]
(* A restricted turn: one tool filtered, one call rejected, nobody to ask. *)
Restricted(m) ==
    [mode |-> m, filtered |-> {"read"}, rejected |-> {"shot2"}, guarded |-> {},
     canApprove |-> FALSE, memory |-> FALSE, history |-> 1, budget |-> TRUE]
(* A tool that needs approval and nobody to ask. *)
Unattended(m) ==
    [mode |-> m, filtered |-> {}, rejected |-> {}, guarded |-> {"read"},
     canApprove |-> FALSE, memory |-> TRUE, history |-> 0, budget |-> FALSE]

AllTurns == UNION {{Asking(m), Restricted(m), Unattended(m)} : m \in {"sync", "async"}}
=============================================================================
