------------------------- MODULE AgentServicesModel -------------------------
(* The instance TLC checks of two components a turn calls on and that      *)
(* share no state: the providers and the memory.  A behaviour is a         *)
(* behaviour of one of them; the other stays in one of its initial states. *)
EXTENDS ProvidersModel, Memory

Text(bytes, utf8, ends) == [bytes |-> bytes, utf8 |-> utf8, endsComment |-> ends]
MCContents ==
    [c \in {"u", "arrow", "huge", "[REDACTED]"} |->
        CASE c = "u" -> Text(1, TRUE, FALSE) [] c = "arrow" -> Text(1, TRUE, TRUE)
          [] c = "huge" -> Text(9, TRUE, FALSE) [] OTHER -> Text(1, TRUE, FALSE)]
MCKeys == {"a", "b", "api_token"}
MCOrder == [k \in MCKeys \union {"turn-1", "turn-2", "turn-3"} |->
              CASE k = "a" -> 1 [] k = "api_token" -> 2 [] k = "b" -> 3 [] k = "turn-1" -> 4
                [] k = "turn-2" -> 5 [] OTHER -> 6]
\* "u" is a word; "n-1" is a part of a turn's key, and two words to FTS5, which finds them in "n, 1 -->", the arrow.
MCTexts == {"", "u", "n-1"}
MCContained == [t \in MCTexts |-> CASE t = "u" -> {"u"} [] t = "n-1" -> {"turn-1"} [] OTHER -> {}]
MCPhrased == [t \in MCTexts |-> CASE t = "u" -> {"u"} [] t = "n-1" -> {"arrow"} [] OTHER -> {}]
MCBudget == [calls |-> 3, crashes |-> 1, faults |-> 1, turns |-> 1]

VARIABLE asked     \* the component this behaviour is one of

serviceVars == <<asked, vars, memoryVars>>

ServicesInit ==
    /\ asked \in {"provider", "memory"}
    /\ Init /\ MemoryInit
    /\ asked # "provider" => setup = CHOOSE s \in Setups : TRUE

ServicesNext ==
    /\ UNCHANGED asked
    /\ \/ asked = "provider" /\ Next /\ UNCHANGED memoryVars
       \/ asked = "memory" /\ MemoryNext /\ UNCHANGED vars

(* The fairness of the providers, asked of their own behaviours only.      *)
ServicesSpec ==
    /\ ServicesInit /\ [][ServicesNext]_serviceVars
    /\ WF_vars(asked = "provider" /\ Step)
=============================================================================
