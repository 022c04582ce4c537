---------------------------- MODULE ServiceModel ----------------------------
(***************************************************************************)
(* The instance TLC checks of two components that share no state: the      *)
(* turn queue, and the Telegram channel whose messages become turns.  A    *)
(* behaviour is a behaviour of one of them; the other stays in one of its  *)
(* initial states.                                                         *)
(***************************************************************************)
EXTENDS TurnQueue, TelegramModel

VARIABLE service   \* the component this behaviour is one of

serviceVars == <<service, vars, telegramVars>>

ServiceInit ==
    /\ service \in {"queue", "telegram"}
    /\ Init /\ TelegramInit
    /\ service # "telegram" => budget = B(0, 3, 0, 2, 0)

ServiceNext ==
    /\ UNCHANGED service
    /\ \/ service = "queue" /\ Next /\ UNCHANGED telegramVars
       \/ service = "telegram" /\ TelegramNext /\ UNCHANGED vars

(* The fairness of each component, asked of its own behaviours only.       *)
Queueing == service = "queue"
Polling == service = "telegram"

ServiceSpec ==
    /\ ServiceInit /\ [][ServiceNext]_serviceVars
    /\ WF_vars(Queueing /\ Task) /\ WF_vars(Queueing /\ TurnComplete) /\ WF_vars(Queueing /\ AsyncRemove)
    /\ WF_vars(Queueing /\ DrainTurn) /\ WF_vars(Queueing /\ DrainRemove) /\ WF_vars(Queueing /\ DrainReturn)
    /\ WF_telegramVars(Polling /\ Work) /\ WF_telegramVars(Polling /\ Tick)
=============================================================================
