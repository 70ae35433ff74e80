SPECIFICATION GoSpec
CONSTANTS
    None = None
    Probe = Probe
    Reply = Reply
    StartTimes <- WithAndWithoutStart
    Skews <- AheadOrBehind
    TryTime = 2
    MaxTry = 2
    FirstWait = 1
    MinWait = 1
    Margin = 1
    Duration = 1
    Safety = 2
    Drain = 1
    Timeout = 1
    Grace = 1
    MaxPackets = 1
INVARIANTS TypeOK ReaderCanEnd RecordsAgree ContactAgreed
PROPERTIES BothEnd AbortIsPrompt
