SPECIFICATION FairSpec
CONSTANTS
    Messages <- SmallMessages
    Channels <- TwoChannels
    Rules <- HookRule
    AllowedSenders <- Senders
    Drafting <- TgOnly
    MaxSeen = 2
    MaxHist = 3
    Settings <- DaemonAndOnce
    MaxArrivals = 4
    MaxFaults = 1
    MaxCrashes = 1
INVARIANTS HistoryFaithful OneAnswerPerAdmission AdmittedOnceInWindow
PROPERTY InboxesDrain
CHECK_DEADLOCK FALSE
