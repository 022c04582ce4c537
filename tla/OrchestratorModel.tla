------------------------- MODULE OrchestratorModel -------------------------
(* Channels, rules and messages for the runs of Orchestrator.              *)
EXTENDS Orchestrator

TwoChannels == << <<"tg">>, <<"hook">> >>

Msg(uid, id, chan, conv, thread, sender) ==
    [uid |-> uid, id |-> id, chan |-> <<chan>>, conv |-> <<conv>>,
     thread |-> thread, sender |-> <<sender>>, mention |-> FALSE]

\* The rule of the hook channel admits one conversation.
HookRule ==
    [c \in {<<"hook">>} |->
        [enabled |-> TRUE, pairing |-> TRUE, paired |-> TRUE, users |-> {},
         convs |-> {<<"room">>}, mentions |-> FALSE]]

\* One message of each channel, that of the hook channel without a sender, one in a
\* thread of the same conversation, and one that the hook channel's rule refuses.
SmallMessages ==
    {Msg("a", "1", "tg", "chat", Nameless, "ann"),
     Msg("t", "4", "tg", "chat", <<"topic">>, "ann"),
     Msg("b", "2", "hook", "room", Nameless, ""),
     Msg("c", "3", "hook", "den", Nameless, "bob")}

\* A daemon with each of the stores, and a single pass that keeps none.
DaemonAndOnce ==
    {[backend |-> "sqlite", continue |-> TRUE], [backend |-> "jsonl", continue |-> TRUE],
     [backend |-> "none", continue |-> FALSE]}

TgOnly == {<<"tg">>}
Senders == {<<"ann">>, <<"bob">>, Nameless}
=============================================================================
